---- MODULE Spec2Model ----
(***************************************************************************)
(* The tool-calling conversation loop of the chat-bot: ChatOrchestrator,   *)
(* ConversationHistory and the POST /chat route.                           *)
(*                                                                         *)
(* One worker runs turns (process_message) to completion; the LLM gateway  *)
(* and the Tool Router are the environment: every LLM call may return      *)
(* text, tool calls or raise, every tool execution may succeed or raise.   *)
(* A history is an object on a heap, the session map holds references, so  *)
(* a session cleared while its turn is in flight leaves the turn working   *)
(* on the detached object.                                                 *)
(*                                                                         *)
(* Further specifications over the same variables:                         *)
(*   SpecSessions  several workers on the session map, under its lock,     *)
(*                 with the idle-timeout sweep and a clock;                *)
(*   SpecContext   the turns with a Semantic Context Store, with and       *)
(*                 without a conversation logger;                          *)
(*   SpecCache     one TTLCache called from several threads;               *)
(*   SpecClient    BaseAPIClient.get on its TTLCache;                      *)
(*   SpecHttp      BaseAPIClient.get step by step (retries, rate limit),   *)
(*                 called by two threads; SpecRetry, by one thread;        *)
(*   SpecRouter    ToolRouter.execute and its serialization;               *)
(*   SpecParse     LLMService._parse_response;                             *)
(*   SpecLLM       LLMService.chat_completion and its retries;             *)
(*   SpecRetrieve  ContextService.retrieve_context;                        *)
(*   SpecHealth    the GET /health route;                                  *)
(*   SpecChatRoute the POST /chat route from the body to the answer;       *)
(*   SpecStore     ContextService.store_interaction, called repeatedly;    *)
(*   SpecPass      one pass of the conversation loop on a raw completion.  *)
(***************************************************************************)
EXTENDS Integers, Sequences, FiniteSets, TLC

\* ------------------------------------------------------------- bounds
\* BaseAPIClient's rate_limit ranges over 0..MaxRateLimit seconds
MaxRateLimit == 1
\* BaseAPIClient's max_retries ranges over 0..MaxRetries (code: 0..10)
MaxRetries == 2
\* the clock readings explored while requests are retried
MaxTime == 4
\* the items of a list an adapter returns
MaxItems == 2
\* the records of the vector collection when context is retrieved
MaxDocs == 3
\* ContextService's max_results ranges over 1..MaxResults
MaxResults == 2
\* turns (process_message calls) explored in one run
MaxTurns == 2
\* tool calls carried by one LLM response
MaxCalls == 2
\* settings.MAX_CONVERSATION_HISTORY ranges over 1..MaxLength (code: 1..100)
MaxLength == 3
\* the LLM asks for tools, and the client sends a message, only while the
\* history holds fewer messages than this (max_length = 1 never shrinks it)
MaxMessages == 8

\* BaseAPIClient's cache_ttl ranges over 0..MaxTtl, in ticks of the clock
MaxTtl == 2
\* BaseAPIClient's cache_max_size ranges over 1..MaxSize
MaxSize == 2

\* --------------------------------------------------- program constants
MAX_TOOL_ITERATIONS == 5

SYSTEM_PROMPT == "You are EntertainBot"
None == "None"
NO_RESPONSE == "I couldn't generate a response. Please try again."
NO_FORMULATION == "I gathered some data but couldn't formulate a response. Please try again."
GENERIC_500 == "Failed to process your message. Please try again."

SessionIds == {"s1"}
\* the i-th tool call of an LLM response names the i-th of these tools
ToolNames == <<"search_anime", "search_manga", "search_tv_shows", "search_books">>
\* the user's message of the n-th turn
UserMessages == <<"msg1", "msg2", "msg3", "msg4">>
\* LLMResponse.content: null, empty or a text
Contents == {None, "", "llm text"}
\* what LLMService.chat_completion raises after its retries
LLMErrors == {"LLMServiceError: OpenRouter API error", "LLMRateLimitError: rate limited"}
\* what ToolRouter.execute does
ToolOutcomes == {"ok", "ToolExecutionError", "Exception"}

\* a history object is named by the number of the turn that created it
ObjIds == 1..MaxTurns

VARIABLES
    max_length,          \* settings.MAX_CONVERSATION_HISTORY
    sessions,            \* ChatOrchestrator._sessions: session id -> history object
    session_timestamps,  \* ChatOrchestrator._session_timestamps
    now,                 \* time.monotonic()
    heap,                \* ConversationHistory._messages of each history object
    pc,                  \* the worker's position in chat() / process_message
    session_id,          \* process_message's session_id
    history,             \* process_message's local `history` (an object)
    iteration,           \* _run_conversation_loop's loop variable
    llm_response,        \* the LLMResponse being handled
    tc_idx,              \* position of the inner for loop over tool_calls
    turns,               \* turns started so far
    http_response,       \* what chat() answered to the last request
    llm_log,             \* the LLM gateway calls of the current turn
    router_log,          \* the Tool Router invocations since the last LLM call
    tool_rounds,         \* rounds of tool execution begun in the current turn
    tool_failed          \* whether a tool execution raised in the current turn

\* several workers on the session map (the specification SpecSessions)
VARIABLES
    lock,                \* ChatOrchestrator._lock: the worker holding it, or "free"
    wpc,                 \* each worker's position in the operation it runs
    wloc,                \* each worker's operation, its locals and what it returned
    transcript,          \* per session: the messages appended since it was created
    detached             \* the history objects clear_session or the sweep removed

sessVars == <<lock, wpc, wloc, transcript, detached>>

\* the Semantic Context Store and the conversation logger
VARIABLES
    context,             \* whether ChatOrchestrator._context is set
    conv_logger,         \* whether ChatOrchestrator._conv_logger is set
    contexts,            \* what retrieve_context did in the current turn
    interaction,         \* the turn's InteractionLog: whether there is one, its tool_calls
    collection,          \* the vector collection: document id -> record
    stored               \* what store_interaction did at the end of the turn

ctxVars == <<context, conv_logger, contexts, interaction, collection, stored>>

\* the response cache of an API client (TTLCache) and the client's get
VARIABLES
    _store,              \* TTLCache._store: key -> (expiry, value)
    _ttl,                \* TTLCache._ttl
    _max_size,           \* TTLCache._max_size
    last_set,            \* per key set and not removed since: when, and the value
    cache_op,            \* the last operation on the cache and what it returned
    client_op            \* the last BaseAPIClient.get and what it did

cacheVars == <<_store, _ttl, _max_size, last_set, cache_op, client_op>>

\* the outbound requests of an API client (BaseAPIClient._request_with_retry)
VARIABLES
    _rate_limit,         \* BaseAPIClient._rate_limit
    _max_retries,        \* BaseAPIClient._max_retries
    _last_request_time,  \* BaseAPIClient._last_request_time
    hpc,                 \* each thread's position in get / _request_with_retry
    hloc,                \* each thread's attempt, sleep, last response and outcome
    requests             \* when the last two outbound requests started

httpVars == <<_rate_limit, _max_retries, _last_request_time, hpc, hloc, requests>>

\* the services called on their own: the Tool Router, the LLM gateway and
\* the Semantic Context Store, one call at a time
VARIABLES
    service_call         \* the last call of a service: its inputs and what it did

\* the variables of the services behind the conversation loop
serviceVars == <<httpVars, service_call>>

\* the variables of the other components, left alone by the conversation loop
otherVars == <<sessVars, cacheVars, serviceVars>>

vars == <<max_length, sessions, session_timestamps, now, heap, pc, session_id,
          history, iteration, llm_response, tc_idx, turns, http_response,
          llm_log, router_log, tool_rounds, tool_failed, ctxVars, otherVars>>

\* ------------------------------------------------ ConversationHistory
\* Python's messages[-k:] for k >= 0: -0 is 0, so k = 0 is the whole list
PyTail(messages, k) ==
    IF k = 0 \/ k >= Len(messages) THEN messages
    ELSE SubSeq(messages, Len(messages) - k + 1, Len(messages))

NewHistory(system_prompt) ==
    IF system_prompt # "" THEN <<[role |-> "system", content |-> system_prompt]>>
    ELSE <<>>

_trim(messages, maxlen) ==
    IF Len(messages) <= maxlen THEN messages
    ELSE IF Len(messages) > 0 /\ messages[1].role = "system"
         THEN <<messages[1]>> \o PyTail(messages, maxlen - 1)
         ELSE PyTail(messages, maxlen)

add_user_message(messages, maxlen, content) ==
    _trim(Append(messages, [role |-> "user", content |-> content]), maxlen)

add_assistant_message(messages, maxlen, content) ==
    _trim(Append(messages, [role |-> "assistant", content |-> content]), maxlen)

json_dumps(arguments) == <<"json", arguments>>

ToolCallEntry(tc) ==
    [id |-> tc.id, type |-> "function",
     function |-> [name |-> tc.name, arguments |-> json_dumps(tc.arguments)]]

add_assistant_tool_calls(messages, maxlen, tool_calls) ==
    _trim(Append(messages,
                 [role |-> "assistant", content |-> None,
                  tool_calls |-> [i \in 1..Len(tool_calls) |-> ToolCallEntry(tool_calls[i])]]),
          maxlen)

IsErrorResult(result) == "error" \in DOMAIN result

\* mutant: the history is trimmed after a tool result as after any message
add_tool_result_trimming(messages, maxlen, tool_call_id, name, result) ==
    _trim(Append(messages, [role |-> "tool", tool_call_id |-> tool_call_id,
                            name |-> name, content |-> result]), maxlen)

\* mutant: a failed execution leaves no tool-result message
add_tool_result_skips_errors(messages, maxlen, tool_call_id, name, result) ==
    IF IsErrorResult(result) THEN messages
    ELSE Append(messages, [role |-> "tool", tool_call_id |-> tool_call_id,
                           name |-> name, content |-> result])

add_tool_result(messages, maxlen, tool_call_id, name, result) ==
    Append(messages, [role |-> "tool", tool_call_id |-> tool_call_id,
                      name |-> name, content |-> result])

\* ------------------------------------------------------- LLM gateway
\* the tool calls of the LLM's response to call `it` of turn `t`: the LLM
\* issues a fresh id for every call
ToolCallsOf(t, it, names) ==
    [i \in 1..Len(names) |->
        [id |-> <<"call", t, it, i>>, name |-> names[i], arguments |-> [query |-> "q"]]]

NameLists == {SubSeq(ToolNames, 1, n) : n \in 1..MaxCalls}

\* mutant: a response counts as a tool request whatever its list holds
has_tool_calls_always(resp) == TRUE
has_tool_calls(resp) == resp.tool_calls # <<>>

\* chat_completion's payload: the schema is sent iff `tools` is truthy
PayloadHasTools(tools) == tools # None /\ tools # <<>>

TOOL_DEFINITIONS == <<"search_anime", "...13 tool schemas">>

\* --------------------------------------------------- ChatOrchestrator
\* mutant: only ToolExecutionError is caught, any other exception escapes
_execute_tool_call_uncaught(tool_name, outcome) ==
    CASE outcome = "ok" ->
            [raised |-> FALSE, value |-> [results |-> "records", count |-> 1]]
      [] outcome = "ToolExecutionError" ->
            [raised |-> FALSE,
             value |-> [error |-> <<"Tool failed", tool_name, "upstream message">>]]
      [] OTHER -> [raised |-> TRUE, value |-> [error |-> <<"raised">>]]

\* _execute_tool_call: what ToolRouter.execute returned, or an error-shaped
\* string for what it raised; `raised` is an exception leaving the method
_execute_tool_call(tool_name, outcome) ==
    CASE outcome = "ok" ->
            [raised |-> FALSE, value |-> [results |-> "records", count |-> 1]]
      [] outcome = "ToolExecutionError" ->
            [raised |-> FALSE,
             value |-> [error |-> <<"Tool failed", tool_name, "upstream message">>]]
      [] OTHER ->
            [raised |-> FALSE,
             value |-> [error |-> <<"An unexpected error occurred while executing",
                                    tool_name>>]]

\* `content or fallback`: None and "" are falsy
\* mutant: `content if content is not None else fallback`
ContentOr_none_only(content, fallback) ==
    IF content = None THEN fallback ELSE content

ContentOr(content, fallback) ==
    IF content = None \/ content = "" THEN fallback ELSE content

\* the iterations of the for loop of _run_conversation_loop
\* mutant: range(1, MAX_TOOL_ITERATIONS + 2)
LoopRange_one_more == 1..(MAX_TOOL_ITERATIONS + 1)

LoopRange == 1..MAX_TOOL_ITERATIONS

\* the `tools` argument of the calls in the loop and of the forced final call
LoopTools == TOOL_DEFINITIONS
\* mutant: the forced call still offers the tools
FinalTools_with_schema == TOOL_DEFINITIONS

FinalTools == None

\* a history object no reference reaches is collected
Collect(h, sess, keep) ==
    [o \in ObjIds |->
        IF o = keep \/ (\E s \in DOMAIN sess : sess[s] = o) THEN h[o] ELSE <<>>]

\* chat(): the JSON answer for a returned text and for any exception
ChatOk(sid, response_text) ==
    [status |-> 200, success |-> TRUE, response |-> response_text, session_id |-> sid]
\* mutant: the exception's text is echoed to the client
ChatError_echo(e) ==
    [status |-> 500, success |-> FALSE, message |-> e, code |-> 500]

ChatError(e) ==
    [status |-> 500, success |-> FALSE, message |-> GENERIC_500, code |-> 500]

\* ------------------------------------------- Semantic Context Store
\* retrieve_context: not called, nothing within the threshold, records
\* found, or an exception of the vector store
RetrievalOutcomes(configured, coll, sid) ==
    IF ~configured THEN {"off"}
    ELSE {"empty", "raised"}
         \cup (IF \E d \in DOMAIN coll : coll[d].session_id = sid
               THEN {"found"} ELSE {})

\* collection.upsert: not called, done, or an exception of the vector store
StoreOutcomes(configured) == IF configured THEN {"ok", "raised"} ELSE {"off"}

\* process_message's tool_names, comma-joined by store_interaction into
\* tools_used: the names the InteractionLog collected, nothing ("") when
\* there is no InteractionLog or it is empty
JoinedToolNames(log) ==
    IF log.on /\ log.tool_calls # <<>> THEN log.tool_calls ELSE <<>>

\* store_interaction: the record upserted under session_id + "_" + time;
\* the turns of one worker end at different times
store_interaction(coll, sid, at, user_message, response_text, tools_used) ==
    [d \in DOMAIN coll \cup {<<sid, at>>} |->
        IF d = <<sid, at>>
        THEN [session_id |-> sid, question |-> user_message,
              answer |-> response_text, tools_used |-> tools_used]
        ELSE coll[d]]

\* log_tool_call, made only `if self._conv_logger and interaction`
log_tool_call(log, tool_name) ==
    IF log.on THEN [log EXCEPT !.tool_calls = Append(@, tool_name)] ELSE log

\* mutant: a failure of the vector store's upsert leaves process_message
TurnResult_store_raises(sid, response_text, outcome) ==
    IF outcome = "raised" THEN ChatError("context store") ELSE ChatOk(sid, response_text)
\* the end of process_message and chat(): whatever store_interaction did,
\* response_text is returned and answered with 200
TurnResult(sid, response_text, outcome) == ChatOk(sid, response_text)

\* ------------------------------------------- workers on the session map
\* gunicorn workers' threads serving requests at the same time
Workers == {"w1", "w2"}
\* the session ids the clients of SpecSessions send
ClientSessionIds == {"s1", "s2"}

\* a worker that runs no operation
NoOperation ==
    [op |-> "none", sid |-> "none", call |-> 0, now |-> 0, expired |-> {},
     history |-> 0, existed |-> FALSE, ret |-> "none", count |-> 0]

\* ChatOrchestrator.__init__: an unlocked lock, and no request in flight
NoWorkers ==
    /\ lock = "free"
    /\ wpc = [w \in Workers |-> "idle"]
    /\ wloc = [w \in Workers |-> NoOperation]
    /\ transcript = [s \in ClientSessionIds |-> <<>>]
    /\ detached = {}

\* a thread that is in no get: no attempt, no sleep, no response, no outcome
NoResponse == [kind |-> "none", attempt |-> 0]
NoGet == [attempt |-> 0, wake |-> 0, use_cache |-> FALSE, last |-> NoResponse,
          result |-> [kind |-> "none"]]

\* BaseAPIClient.__init__: _last_request_time = 0.0, no request made yet
NoRequests ==
    /\ _last_request_time = 0
    /\ hpc = [w \in Workers |-> "idle"]
    /\ hloc = [w \in Workers |-> NoGet]
    /\ requests = <<>>

\* the settings of the services, where a specification does not vary them
DefaultSettings ==
    /\ _rate_limit = MaxRateLimit
    /\ _max_retries = MaxRetries

\* no service is called on its own
NoServiceCall == service_call = [op |-> "none"]

\* a cache nothing was asked of, and no get made
NoCacheCall == [op |-> "none", key |-> "none", how |-> "none", result |-> None,
                at |-> 0, before |-> <<>>]
NoClientCall ==
    /\ _store = <<>>
    /\ last_set = <<>>
    /\ cache_op = NoCacheCall
    /\ client_op = [op |-> "none", endpoint |-> "none", params |-> <<>>,
                    use_cache |-> FALSE, outbound |-> FALSE, result |-> None]

\* the orchestrator as create_app constructs it, before any request
Constructed ==
    /\ max_length \in 1..MaxLength
    /\ sessions = <<>>
    /\ session_timestamps = <<>>
    /\ now = 0
    /\ heap = [o \in ObjIds |-> <<>>]
    /\ pc = "idle"
    /\ session_id = "none"
    /\ history = 0
    /\ iteration = 0
    /\ llm_response = [content |-> None, tool_calls |-> <<>>]
    /\ tc_idx = 0
    /\ turns = 0
    /\ http_response = [status |-> 0]
    /\ llm_log = <<>>
    /\ router_log = <<>>
    /\ tool_rounds = 0
    /\ tool_failed = FALSE
    /\ contexts = "off"
    /\ interaction = [on |-> FALSE, tool_calls |-> <<>>]
    /\ collection = <<>>
    /\ stored = "off"
    /\ NoWorkers
    /\ NoClientCall
    /\ NoRequests

\* an orchestrator with neither context store nor conversation logger
Init ==
    /\ Constructed
    /\ context = FALSE
    /\ conv_logger = FALSE
    /\ _ttl = MaxTtl
    /\ _max_size = MaxSize
    /\ DefaultSettings
    /\ NoServiceCall

\* POST /chat with a valid body, then process_message up to the loop:
\* _get_or_create_session and add_user_message. Context retrieval (lines
\* 94-102) leaves the history as it is in every outcome: nothing found, a
\* retrieval that raises, or records found, where history.inject_context is
\* no method of ConversationHistory and the AttributeError is caught.
StartTurn(sid) ==
    /\ pc = "idle"
    /\ turns < MaxTurns
    /\ sid \in DOMAIN sessions => Len(heap[sessions[sid]]) < MaxMessages
    /\ LET created == sid \notin DOMAIN sessions
           obj == IF created THEN turns + 1 ELSE sessions[sid]
           old == IF created THEN NewHistory(SYSTEM_PROMPT) ELSE heap[obj]
       IN /\ sessions' = IF created THEN sessions @@ (sid :> obj) ELSE sessions
          /\ session_timestamps' =
                [s \in DOMAIN session_timestamps \cup {sid} |->
                    IF s = sid THEN now ELSE session_timestamps[s]]
          /\ heap' = [heap EXCEPT ![obj] =
                        add_user_message(old, max_length, UserMessages[turns + 1])]
          /\ history' = obj
    /\ session_id' = sid
    /\ turns' = turns + 1
    /\ pc' = "await_llm"
    /\ iteration' = 1
    /\ llm_response' = [content |-> None, tool_calls |-> <<>>]
    /\ tc_idx' = 0
    /\ http_response' = [status |-> 0]
    /\ llm_log' = <<>>
    /\ router_log' = <<>>
    /\ tool_rounds' = 0
    /\ tool_failed' = FALSE
    /\ contexts' \in RetrievalOutcomes(context, collection, sid)
    /\ interaction' = [on |-> conv_logger, tool_calls |-> <<>>]
    /\ stored' = "off"
    /\ UNCHANGED <<max_length, now, context, conv_logger, collection>>
    /\ UNCHANGED otherVars

\* process_message after the loop returned response_text: the reply goes
\* to the history and, with a context store, to the collection; then chat()
\* answering 200
ReturnText(response_text) ==
    /\ heap' = Collect([heap EXCEPT ![history] =
                          add_assistant_message(heap[history], max_length, response_text)],
                       sessions, 0)
    /\ \E outcome \in StoreOutcomes(context) :
          /\ stored' = outcome
          /\ collection' =
                IF outcome = "ok"
                THEN store_interaction(collection, session_id, turns, UserMessages[turns],
                                       response_text, JoinedToolNames(interaction))
                ELSE collection
          /\ http_response' = TurnResult(session_id, response_text, outcome)
    /\ pc' = "idle"
    /\ history' = 0
    /\ iteration' = 0
    /\ tc_idx' = 0

\* mutant: process_message takes the last message of the turn back when
\* the turn fails
Propagate_rollback(e) ==
    /\ heap' = Collect([heap EXCEPT ![history] = SubSeq(@, 1, Len(@) - 1)],
                       sessions, 0)
    /\ http_response' = ChatError(e)
    /\ UNCHANGED <<collection, stored>>
    /\ pc' = "idle"
    /\ history' = 0
    /\ iteration' = 0
    /\ tc_idx' = 0

\* an exception leaves _run_conversation_loop: process_message logs and
\* re-raises, chat() answers 500
Propagate(e) ==
    /\ heap' = Collect(heap, sessions, 0)
    /\ http_response' = ChatError(e)
    /\ UNCHANGED <<collection, stored>>
    /\ pc' = "idle"
    /\ history' = 0
    /\ iteration' = 0
    /\ tc_idx' = 0

LogEntry(tools, outcome, e) ==
    [tools |-> PayloadHasTools(tools), outcome |-> outcome, error |-> e]

\* one pass of the for loop up to the inner loop: the LLM call with the
\* tool schema, then either the return or add_assistant_tool_calls
LLMCall ==
    /\ pc = "await_llm"
    /\ \/ \E e \in LLMErrors :
            /\ llm_log' = Append(llm_log, LogEntry(LoopTools, "raise", e))
            /\ Propagate(e)
            /\ UNCHANGED <<llm_response, tool_rounds>>
       \/ \E c \in Contents, names \in NameLists \cup {<<>>} :
            LET resp == [content |-> c,
                         tool_calls |-> ToolCallsOf(turns, iteration, names)]
            IN /\ has_tool_calls(resp) => Len(heap[history]) < MaxMessages
               /\ llm_response' = resp
               /\ IF ~has_tool_calls(resp)
                  THEN /\ llm_log' = Append(llm_log, LogEntry(LoopTools, "text", None))
                       /\ ReturnText(ContentOr(resp.content, NO_RESPONSE))
                       /\ UNCHANGED tool_rounds
                  ELSE /\ llm_log' = Append(llm_log,
                                            LogEntry(LoopTools, "tool_calls", None))
                       /\ heap' = [heap EXCEPT ![history] =
                                     add_assistant_tool_calls(heap[history], max_length,
                                                              resp.tool_calls)]
                       /\ pc' = "execute_tools"
                       /\ tc_idx' = 1
                       /\ tool_rounds' = tool_rounds + 1
                       /\ UNCHANGED <<history, iteration, http_response, collection,
                                      stored>>
    /\ router_log' = <<>>
    /\ UNCHANGED <<max_length, sessions, session_timestamps, now, session_id, turns,
                   tool_failed, context, conv_logger, contexts, interaction>>
    /\ UNCHANGED otherVars

\* one pass of the inner loop: _execute_tool_call and add_tool_result; after
\* the last call of the response the for loop goes on, or ends
ExecuteTool ==
    /\ pc = "execute_tools"
    /\ \E outcome \in ToolOutcomes :
         LET tool_call == llm_response.tool_calls[tc_idx]
             result == _execute_tool_call(tool_call.name, outcome)
         IN /\ router_log' = Append(router_log,
                                    [tool_name |-> tool_call.name,
                                     arguments |-> tool_call.arguments,
                                     outcome |-> outcome])
            /\ tool_failed' = (tool_failed \/ outcome # "ok")
            /\ IF result.raised
               THEN Propagate(outcome) /\ UNCHANGED interaction
               ELSE /\ interaction' = log_tool_call(interaction, tool_call.name)
                    /\ heap' = [heap EXCEPT ![history] =
                                  add_tool_result(heap[history], max_length, tool_call.id,
                                                  tool_call.name, result.value)]
                    /\ IF tc_idx < Len(llm_response.tool_calls)
                       THEN /\ tc_idx' = tc_idx + 1
                            /\ UNCHANGED <<pc, iteration>>
                       ELSE /\ tc_idx' = 0
                            /\ iteration' = iteration + 1
                            /\ pc' = IF iteration + 1 \in LoopRange
                                     THEN "await_llm" ELSE "final_llm"
                    /\ UNCHANGED <<history, http_response, collection, stored>>
    /\ UNCHANGED <<max_length, sessions, session_timestamps, now, session_id,
                   llm_response, turns, llm_log, tool_rounds, context, conv_logger,
                   contexts>>
    /\ UNCHANGED otherVars

\* the loop is exhausted: one LLM call with tools=None, its content returned
FinalLLMCall ==
    /\ pc = "final_llm"
    /\ \/ \E e \in LLMErrors :
            /\ llm_log' = Append(llm_log, LogEntry(FinalTools, "raise", e))
            /\ Propagate(e)
            /\ UNCHANGED llm_response
       \/ \E c \in Contents, names \in NameLists \cup {<<>>} :
            LET final_response == [content |-> c,
                                   tool_calls |-> ToolCallsOf(turns, iteration, names)]
            IN /\ llm_response' = final_response
               /\ llm_log' = Append(llm_log,
                                    LogEntry(FinalTools,
                                             IF has_tool_calls(final_response)
                                             THEN "tool_calls" ELSE "text", None))
               /\ ReturnText(ContentOr(final_response.content, NO_FORMULATION))
    /\ router_log' = <<>>
    /\ UNCHANGED <<max_length, sessions, session_timestamps, now, session_id, turns,
                   tool_rounds, tool_failed, context, conv_logger, contexts, interaction>>
    /\ UNCHANGED otherVars

\* clear_session (POST /chat/clear), served while a turn may be in flight
ClearSession(sid) ==
    /\ sid \in DOMAIN sessions
    /\ sessions' = [s \in DOMAIN sessions \ {sid} |-> sessions[s]]
    /\ session_timestamps' =
          [s \in DOMAIN session_timestamps \ {sid} |-> session_timestamps[s]]
    /\ heap' = Collect(heap, sessions', history)
    /\ UNCHANGED <<max_length, now, pc, session_id, history, iteration, llm_response,
                   tc_idx, turns, http_response, llm_log, router_log, tool_rounds,
                   tool_failed, ctxVars>>
    /\ UNCHANGED otherVars

Next ==
    \/ \E sid \in SessionIds : StartTurn(sid)
    \/ LLMCall
    \/ ExecuteTool
    \/ FinalLLMCall
    \/ \E sid \in SessionIds : ClearSession(sid)

Spec == Init /\ [][Next]_vars

\* ------------------------------------------------------------ claims
LastCall == llm_log[Len(llm_log)]
TurnOver == pc = "idle" /\ Len(llm_log) > 0
\* every call of the loop so far was answered with tool calls
AllRoundsAskedTools ==
    /\ Len(llm_log) >= MAX_TOOL_ITERATIONS
    /\ \A i \in 1..MAX_TOOL_ITERATIONS : llm_log[i].outcome = "tool_calls"

\* C1: a turn performs at most MAX_TOOL_ITERATIONS rounds of tool execution
\* and at most MAX_TOOL_ITERATIONS + 1 LLM gateway calls, and the last of
\* these is made only after MAX_TOOL_ITERATIONS responses with tool calls.
C1_RoundBudget ==
    /\ tool_rounds <= MAX_TOOL_ITERATIONS
    /\ Len(llm_log) <= MAX_TOOL_ITERATIONS + 1
    /\ Len(llm_log) = MAX_TOOL_ITERATIONS + 1 => AllRoundsAskedTools

C1_Witness ==
    /\ TurnOver
    /\ Len(llm_log) = MAX_TOOL_ITERATIONS + 1
    /\ tool_rounds = MAX_TOOL_ITERATIONS

\* C2: after tool calls on every one of the MAX_TOOL_ITERATIONS rounds the
\* orchestrator makes exactly one more LLM call, without the tool schema,
\* executes no tool after it and returns its content, or the fixed fallback
\* when the content is empty or null, whether or not that response carries
\* tool calls; every call before it is sent with the tool schema.
C2_ForcedFinalCall ==
    /\ \A i \in 1..Len(llm_log) : llm_log[i].tools = (i <= MAX_TOOL_ITERATIONS)
    /\ (AllRoundsAskedTools /\ Len(llm_log) = MAX_TOOL_ITERATIONS) =>
            pc \in {"execute_tools", "final_llm"}
    /\ (AllRoundsAskedTools /\ pc = "idle") =>
            /\ Len(llm_log) = MAX_TOOL_ITERATIONS + 1
            /\ tool_rounds = MAX_TOOL_ITERATIONS
            /\ router_log = <<>>
            /\ LastCall.outcome # "raise" =>
                  http_response =
                    [status |-> 200, success |-> TRUE, session_id |-> session_id,
                     response |-> IF llm_response.content \in {None, ""}
                                  THEN NO_FORMULATION ELSE llm_response.content]

C2_Witness ==
    /\ TurnOver
    /\ Len(llm_log) = MAX_TOOL_ITERATIONS + 1
    /\ LastCall.outcome = "tool_calls"
    /\ llm_response.content = ""
    /\ http_response.status = 200

IsToolCallMsg(m) == m.role = "assistant" /\ "tool_calls" \in DOMAIN m

\* the history ends with the tool-call message of `calls` and the results
\* of its first `done` calls, in order, each with its call's id and name
EndsWithRound(h, calls, done) ==
    LET base == Len(h) - done
    IN /\ base >= 1
       /\ IsToolCallMsg(h[base])
       /\ Len(h[base].tool_calls) = Len(calls)
       /\ \A i \in 1..Len(calls) :
            /\ h[base].tool_calls[i].id = calls[i].id
            /\ h[base].tool_calls[i].function.name = calls[i].name
       /\ \A j \in 1..done :
            /\ h[base + j].role = "tool"
            /\ h[base + j].tool_call_id = calls[j].id
            /\ h[base + j].name = calls[j].name

InRound == pc = "execute_tools" \/ (pc \in {"await_llm", "final_llm"} /\ tool_rounds > 0)

\* C3: for a response with tool calls c1..cN the orchestrator appends one
\* tool-call message, then invokes the router once per call in the order
\* received and appends after each invocation, failed or not, one
\* tool-result message with that call's id and name; all N are there before
\* the next LLM call.
C3_OneResultPerCall ==
    InRound =>
        LET calls == llm_response.tool_calls
        IN /\ Len(router_log) = IF pc = "execute_tools" THEN tc_idx - 1 ELSE Len(calls)
           /\ \A j \in 1..Len(router_log) :
                /\ router_log[j].tool_name = calls[j].name
                /\ router_log[j].arguments = calls[j].arguments
           /\ EndsWithRound(heap[history], calls, Len(router_log))

C3_Witness ==
    /\ pc = "await_llm"
    /\ Len(router_log) = MaxCalls
    /\ router_log[1].outcome # "ok"
    /\ tool_rounds = 2

C5_LLMFailureIs500 ==
    (Len(llm_log) > 0 /\ LastCall.outcome = "raise") =>
        /\ pc = "idle"
        /\ http_response.status = 500
        /\ http_response.success = FALSE
        /\ http_response.code = 500
        /\ http_response.message = GENERIC_500
        /\ http_response.message # LastCall.error
        /\ "response" \notin DOMAIN http_response

C5_Witness ==
    /\ TurnOver
    /\ Len(llm_log) = MAX_TOOL_ITERATIONS + 1
    /\ LastCall.outcome = "raise"
    /\ http_response.status = 500

\* C6: a response without tool calls within the round budget ends the turn
\* at once: its content, or the fixed fallback when the content is empty or
\* null, is the answer; no tool is executed and no LLM call made after it.
C6_TextEndsTurn ==
    (Len(llm_log) \in 1..MAX_TOOL_ITERATIONS /\ LastCall.outcome = "text") =>
        /\ pc = "idle"
        /\ router_log = <<>>
        /\ tool_rounds = Len(llm_log) - 1
        /\ http_response =
              [status |-> 200, success |-> TRUE, session_id |-> session_id,
               response |-> IF llm_response.content \in {None, ""}
                            THEN NO_RESPONSE ELSE llm_response.content]

C6_Witness ==
    /\ TurnOver
    /\ Len(llm_log) = 2
    /\ LastCall.outcome = "text"
    /\ llm_response.content = ""
    /\ http_response.response = NO_RESPONSE

\* the histories the claims speak of: the one about to be sent to the LLM,
\* and every session's history between turns
SentOrAtRest(o) ==
    \/ pc \in {"await_llm", "final_llm"} /\ o = history
    \/ pc = "idle" /\ \E s \in DOMAIN sessions : sessions[s] = o

\* C7: a history created with a non-empty system prompt holds, after any
\* sequence of add_user_message, add_assistant_message,
\* add_assistant_tool_calls and add_tool_result, exactly one system message,
\* at index 0, with the original prompt, for every max_length in 1..100.
C7_OneSystemMessage ==
    \A o \in ObjIds :
        heap[o] # <<>> =>
            /\ heap[o][1] = [role |-> "system", content |-> SYSTEM_PROMPT]
            /\ \A i \in 2..Len(heap[o]) : heap[o][i].role # "system"

\* C8: after any sequence of ConversationHistory operations, add_tool_result
\* included, a history never holds more than max_length messages.
C8_LengthCapped ==
    \A o \in ObjIds : Len(heap[o]) <= max_length

\* every tool-call message of h is followed at once by exactly as many
\* tool-result messages as it declares tool calls
CallsPaired(h) ==
    \A i \in 1..Len(h) :
        IsToolCallMsg(h[i]) =>
            LET n == Len(h[i].tool_calls)
            IN /\ i + n <= Len(h)
               /\ \A j \in 1..n : h[i + j].role = "tool"
               /\ i + n < Len(h) => h[i + n + 1].role # "tool"

\* C9: in every history sent to the LLM and in every session history
\* between turns, each tool-call message declaring N tool calls is followed
\* at once by exactly N tool-result messages, whatever max_length is.
C9_CallsPaired ==
    \A o \in ObjIds : SentOrAtRest(o) => CallsPaired(heap[o])

C9_Witness ==
    /\ pc = "await_llm"
    /\ max_length > 1
    /\ Len(heap[history]) > max_length
    /\ heap[history][2].role = "tool"
    /\ \E i \in 1..Len(heap[history]) :
          /\ IsToolCallMsg(heap[history][i])
          /\ Len(heap[history][i].tool_calls) = MaxCalls
          /\ \E j \in 1..MaxCalls : IsErrorResult(heap[history][i + j].content)

DeclaredIds(m) == {m.tool_calls[k].id : k \in 1..Len(m.tool_calls)}

\* C10: in every history sent to the LLM each tool-result message is
\* preceded, with nothing but tool-result messages in between, by the
\* tool-call message that declares its tool_call_id.
C10_NoOrphanResult ==
    pc \in {"await_llm", "final_llm"} =>
        LET h == heap[history]
        IN \A i \in 1..Len(h) :
              h[i].role = "tool" =>
                 \E j \in 1..(i - 1) :
                    /\ IsToolCallMsg(h[j])
                    /\ h[i].tool_call_id \in DeclaredIds(h[j])
                    /\ \A k \in (j + 1)..(i - 1) : h[k].role = "tool"

\* ====================================================================
\* SpecSessions: several workers on the session map. Every operation is
\* cut at its statements, the lock is what makes its body atomic; the
\* LLM answers a turn with a text (no tool rounds).
\* ====================================================================
\* how far the monotonic clock runs
MaxClock == 2
\* settings.SESSION_TTL_SECONDS, in ticks of the clock
SessionTtl == 1

\* the variables of the single worker of Spec
loopVars == <<pc, session_id, history, iteration, llm_response, tc_idx,
              http_response, llm_log, router_log, tool_rounds, tool_failed, ctxVars>>

\* the history objects some worker holds in its local `history`
Held(loc) == {loc[w].history : w \in Workers}

\* objects neither in the session map nor held by a worker are collected
CollectAll(h, sess, loc) ==
    [o \in DOMAIN h |->
        IF (\E s \in DOMAIN sess : sess[s] = o) \/ o \in Held(loc)
        THEN h[o] ELSE <<>>]

DropKeys(map, keys) == [s \in DOMAIN map \ keys |-> map[s]]

\* a worker whose operation is over: what it ran and how that ended
Returned(op, ret) == [NoOperation EXCEPT !.op = op, !.ret = ret]

\* the text of the LLM's answer in SpecSessions
ReplyContents == {"llm text"}

\* mutant: the bodies run without the lock
CanAcquire_unlocked == TRUE
\* `with self._lock:` is entered only while no other thread is inside
CanAcquire == lock = "free"

\* mutant: every message constructs a new history
Unknown_always(sid, sess) == TRUE
\* _get_or_create_session: `session_id not in self._sessions`
Unknown(sid, sess) == sid \notin DOMAIN sess

\* leaving the `with` block
Release(w) == IF lock = w THEN "free" ELSE lock

\* mutant: a session exactly ttl old is swept
IsExpired_inclusive(swept_at, last_active, ttl) == swept_at - last_active >= ttl
\* the sweep's test of one session: now - last_active > ttl
IsExpired(swept_at, last_active, ttl) == swept_at - last_active > ttl

\* POST /chat reaches process_message(session_id, user_message), which
\* enters _get_or_create_session's `with self._lock:` once the lock is free
PMBegin(w, sid) ==
    /\ wpc[w] = "idle"
    /\ turns < MaxTurns
    /\ CanAcquire
    /\ lock' = w
    /\ turns' = turns + 1
    /\ wloc' = [wloc EXCEPT ![w] = [NoOperation EXCEPT !.op = "process_message",
                                                       !.sid = sid,
                                                       !.call = turns + 1]]
    /\ wpc' = [wpc EXCEPT ![w] = "goc_check"]
    /\ UNCHANGED <<max_length, sessions, session_timestamps, now, heap,
                   transcript, detached, loopVars, cacheVars, serviceVars>>

\* POST /chat/clear reaches clear_session(session_id), which enters its
\* `with self._lock:` once the lock is free
ClearBegin(w, sid) ==
    /\ wpc[w] = "idle"
    /\ CanAcquire
    /\ lock' = w
    /\ wloc' = [wloc EXCEPT ![w] = [NoOperation EXCEPT !.op = "clear_session",
                                                       !.sid = sid]]
    /\ wpc' = [wpc EXCEPT ![w] = "clr_check"]
    /\ UNCHANGED <<max_length, sessions, session_timestamps, now, heap, turns,
                   transcript, detached, loopVars, cacheVars, serviceVars>>

\* cleanup_expired_sessions reads the TTL and the clock, then asks for the lock
SweepBegin(w) ==
    /\ wpc[w] = "idle"
    /\ wloc' = [wloc EXCEPT ![w] = [NoOperation EXCEPT
                                       !.op = "cleanup_expired_sessions",
                                       !.now = now]]
    /\ wpc' = [wpc EXCEPT ![w] = "swp_lock"]
    /\ UNCHANGED <<max_length, sessions, session_timestamps, now, heap, turns, lock,
                   transcript, detached, loopVars, cacheVars, serviceVars>>

\* the sweep, its clock reading taken, enters `with self._lock:`
Acquire(w) ==
    /\ wpc[w] = "swp_lock"
    /\ CanAcquire
    /\ lock' = w
    /\ wpc' = [wpc EXCEPT ![w] = "swp_collect"]
    /\ UNCHANGED <<max_length, sessions, session_timestamps, now, heap, turns, wloc,
                   transcript, detached, loopVars, cacheVars, serviceVars>>

\* _get_or_create_session: `if session_id not in self._sessions`
GocCheck(w) ==
    /\ wpc[w] = "goc_check"
    /\ wpc' = [wpc EXCEPT ![w] = IF Unknown(wloc[w].sid, sessions)
                                 THEN "goc_create" ELSE "goc_stamp"]
    /\ UNCHANGED <<max_length, sessions, session_timestamps, now, heap, turns, lock,
                   wloc, transcript, detached, loopVars, cacheVars, serviceVars>>

\* _get_or_create_session: self._sessions[session_id] = ConversationHistory(...)
GocCreate(w) ==
    /\ wpc[w] = "goc_create"
    /\ LET sid == wloc[w].sid
           obj == wloc[w].call
       IN /\ sessions' = [s \in DOMAIN sessions \cup {sid} |->
                            IF s = sid THEN obj ELSE sessions[s]]
          /\ heap' = CollectAll([heap EXCEPT ![obj] = NewHistory(SYSTEM_PROMPT)],
                                sessions', wloc)
    /\ wpc' = [wpc EXCEPT ![w] = "goc_stamp"]
    /\ UNCHANGED <<max_length, session_timestamps, now, turns, lock, wloc,
                   transcript, detached, loopVars, cacheVars, serviceVars>>

\* _get_or_create_session: self._session_timestamps[session_id] = time.monotonic()
GocStamp(w) ==
    /\ wpc[w] = "goc_stamp"
    /\ session_timestamps' =
          [s \in DOMAIN session_timestamps \cup {wloc[w].sid} |->
              IF s = wloc[w].sid THEN now ELSE session_timestamps[s]]
    /\ wpc' = [wpc EXCEPT ![w] = "goc_return"]
    /\ UNCHANGED <<max_length, sessions, now, heap, turns, lock, wloc, transcript,
                   detached, loopVars, cacheVars, serviceVars>>

\* _get_or_create_session: return self._sessions[session_id], leaving the lock
GocReturn(w) ==
    /\ wpc[w] = "goc_return"
    /\ IF wloc[w].sid \in DOMAIN sessions
       THEN /\ wloc' = [wloc EXCEPT ![w].history = sessions[wloc[w].sid]]
            /\ wpc' = [wpc EXCEPT ![w] = "add_user"]
       ELSE /\ wloc' = [wloc EXCEPT ![w] = Returned(wloc[w].op, "KeyError")]
            /\ wpc' = [wpc EXCEPT ![w] = "idle"]
    /\ lock' = Release(w)
    /\ UNCHANGED <<max_length, sessions, session_timestamps, now, heap, turns,
                   transcript, detached, loopVars, cacheVars, serviceVars>>

\* whether the worker's history is still the one the session map holds
Attached(w) ==
    /\ wloc[w].sid \in DOMAIN sessions
    /\ sessions[wloc[w].sid] = wloc[w].history

\* mutant: a turn whose session was removed puts its history back into
\* the session map
AddUser_puts_back(w) ==
    /\ wpc[w] = "add_user"
    /\ LET h == wloc[w].history
           m == UserMessages[wloc[w].call]
       IN /\ heap' = [heap EXCEPT ![h] = add_user_message(heap[h], max_length, m)]
          /\ sessions' = [s \in DOMAIN sessions \cup {wloc[w].sid} |->
                            IF s = wloc[w].sid THEN h ELSE sessions[s]]
          /\ session_timestamps' =
                [s \in DOMAIN session_timestamps \cup {wloc[w].sid} |->
                    IF s = wloc[w].sid THEN now ELSE session_timestamps[s]]
          /\ transcript' = [transcript EXCEPT ![wloc[w].sid] =
                              Append(@, [role |-> "user", content |-> m])]
    /\ wpc' = [wpc EXCEPT ![w] = "await_llm"]
    /\ UNCHANGED <<max_length, now, turns, lock, wloc, detached, loopVars,
                   cacheVars, serviceVars>>

\* process_message: history.add_user_message(user_message)
AddUser(w) ==
    /\ wpc[w] = "add_user"
    /\ LET h == wloc[w].history
           m == UserMessages[wloc[w].call]
       IN /\ heap' = [heap EXCEPT ![h] = add_user_message(heap[h], max_length, m)]
          /\ transcript' = IF Attached(w)
                           THEN [transcript EXCEPT ![wloc[w].sid] =
                                    Append(@, [role |-> "user", content |-> m])]
                           ELSE transcript
    /\ wpc' = [wpc EXCEPT ![w] = "await_llm"]
    /\ UNCHANGED <<max_length, sessions, session_timestamps, now, turns, lock, wloc,
                   detached, loopVars, cacheVars, serviceVars>>

\* the loop's first LLM call answers with a text, then
\* add_assistant_message and the return
Reply(w) ==
    /\ wpc[w] = "await_llm"
    /\ \E c \in ReplyContents :
            LET h == wloc[w].history
                response_text == ContentOr(c, NO_RESPONSE)
            IN /\ wloc' = [wloc EXCEPT ![w] = Returned(wloc[w].op, "returned")]
               /\ heap' = CollectAll(
                            [heap EXCEPT ![h] =
                               add_assistant_message(heap[h], max_length, response_text)],
                            sessions, wloc')
               /\ transcript' =
                     IF Attached(w)
                     THEN [transcript EXCEPT ![wloc[w].sid] =
                             Append(@, [role |-> "assistant", content |-> response_text])]
                     ELSE transcript
    /\ detached' = detached \cap Held(wloc')
    /\ wpc' = [wpc EXCEPT ![w] = "idle"]
    /\ UNCHANGED <<max_length, sessions, session_timestamps, now, turns, lock,
                   loopVars, cacheVars, serviceVars>>

\* clear_session: `if session_id in self._sessions: del self._sessions[...]`,
\* else return False
ClearCheck(w) ==
    /\ wpc[w] = "clr_check"
    /\ LET sid == wloc[w].sid
       IN IF sid \in DOMAIN sessions
          THEN /\ sessions' = DropKeys(sessions, {sid})
               /\ detached' = (detached \cup {sessions[sid]}) \cap Held(wloc)
               /\ heap' = CollectAll(heap, sessions', wloc)
               /\ transcript' = [transcript EXCEPT ![sid] = <<>>]
               /\ wloc' = [wloc EXCEPT ![w].existed = TRUE]
               /\ wpc' = [wpc EXCEPT ![w] = "clr_pop"]
               /\ UNCHANGED lock
          ELSE /\ wloc' = [wloc EXCEPT ![w].ret = "False"]
               /\ wpc' = [wpc EXCEPT ![w] = "idle"]
               /\ lock' = Release(w)
               /\ UNCHANGED <<sessions, detached, heap, transcript>>
    /\ UNCHANGED <<max_length, session_timestamps, now, turns, loopVars, cacheVars, serviceVars>>

\* mutant: clear_session leaves the timestamp of the session behind
ClearPop_keeps_timestamp(w) ==
    /\ wpc[w] = "clr_pop"
    /\ wloc' = [wloc EXCEPT ![w].ret = "True"]
    /\ wpc' = [wpc EXCEPT ![w] = "idle"]
    /\ lock' = Release(w)
    /\ UNCHANGED <<max_length, sessions, session_timestamps, now, heap, turns,
                   transcript, detached, loopVars, cacheVars, serviceVars>>

\* clear_session: self._session_timestamps.pop(session_id, None); return True
ClearPop(w) ==
    /\ wpc[w] = "clr_pop"
    /\ session_timestamps' = DropKeys(session_timestamps, {wloc[w].sid})
    /\ wloc' = [wloc EXCEPT ![w].ret = "True"]
    /\ wpc' = [wpc EXCEPT ![w] = "idle"]
    /\ lock' = Release(w)
    /\ UNCHANGED <<max_length, sessions, now, heap, turns, transcript, detached,
                   loopVars, cacheVars, serviceVars>>

\* cleanup_expired_sessions: the list comprehension over _session_timestamps
SweepCollect(w) ==
    /\ wpc[w] = "swp_collect"
    /\ wloc' = [wloc EXCEPT ![w].expired =
                  {sid \in DOMAIN session_timestamps :
                      IsExpired(wloc[w].now, session_timestamps[sid], SessionTtl)}]
    /\ wpc' = [wpc EXCEPT ![w] = "swp_delete"]
    /\ UNCHANGED <<max_length, sessions, session_timestamps, now, heap, turns, lock,
                   transcript, detached, loopVars, cacheVars, serviceVars>>

\* cleanup_expired_sessions: the loop of `del`s and the return; a `del` of a
\* key that is not there raises KeyError
SweepDelete(w) ==
    /\ wpc[w] = "swp_delete"
    /\ LET expired == wloc[w].expired
           there == expired \cap DOMAIN sessions
       IN /\ sessions' = DropKeys(sessions, expired)
          /\ session_timestamps' = DropKeys(session_timestamps, expired)
          /\ detached' = (detached \cup {sessions[s] : s \in there}) \cap Held(wloc)
          /\ heap' = CollectAll(heap, sessions', wloc)
          /\ transcript' = [s \in DOMAIN transcript |->
                              IF s \in expired THEN <<>> ELSE transcript[s]]
          /\ wloc' = IF expired \subseteq DOMAIN sessions
                     THEN [wloc EXCEPT ![w].ret = "returned",
                                       ![w].expired = {},
                                       ![w].count = Cardinality(expired)]
                     ELSE [wloc EXCEPT ![w] = Returned(wloc[w].op, "KeyError")]
    /\ wpc' = [wpc EXCEPT ![w] = "idle"]
    /\ lock' = Release(w)
    /\ UNCHANGED <<max_length, now, turns, loopVars, cacheVars, serviceVars>>

\* time passes
Tick ==
    /\ now < MaxClock
    /\ now' = now + 1
    /\ UNCHANGED <<max_length, sessions, session_timestamps, heap, turns, sessVars,
                   loopVars, cacheVars, serviceVars>>

NextSessions ==
    \/ \E w \in Workers, sid \in ClientSessionIds : PMBegin(w, sid)
    \/ \E w \in Workers, sid \in ClientSessionIds : ClearBegin(w, sid)
    \/ \E w \in Workers : SweepBegin(w)
    \/ \E w \in Workers : Acquire(w)
    \/ \E w \in Workers : GocCheck(w)
    \/ \E w \in Workers : GocCreate(w)
    \/ \E w \in Workers : GocStamp(w)
    \/ \E w \in Workers : GocReturn(w)
    \/ \E w \in Workers : AddUser(w)
    \/ \E w \in Workers : Reply(w)
    \/ \E w \in Workers : ClearCheck(w)
    \/ \E w \in Workers : ClearPop(w)
    \/ \E w \in Workers : SweepCollect(w)
    \/ \E w \in Workers : SweepDelete(w)
    \/ Tick

\* the history bound at its smallest and at its largest
InitSessions ==
    /\ Init
    /\ max_length \in {1, MaxLength}

SpecSessions == InitSessions /\ [][NextSessions]_vars

\* ------------------------------------------------ claims C11 .. C14
\* positions inside a `with self._lock:` block
InsideLock ==
    {"goc_check", "goc_create", "goc_stamp", "goc_return", "clr_check", "clr_pop",
     "swp_collect", "swp_delete"}
Holds(w) == wloc[w].history # 0

\* C11: workers that ask for the same unknown session at the same time
\* create one history and all receive it: a history a worker holds is the
\* one in the session map unless clear_session or the sweep removed it.
\* The bodies of get_or_create, clear and sweep never overlap, and none of
\* them raises.
C11_OneHistoryPerSession ==
    /\ \A w \in Workers : wloc[w].ret # "KeyError"
    /\ \A w \in Workers : (lock = w) <=> (wpc[w] \in InsideLock)
    /\ Cardinality({w \in Workers : wpc[w] \in InsideLock}) <= 1
    /\ \A w \in Workers : Holds(w) => Attached(w) \/ wloc[w].history \in detached
    /\ \A w, v \in Workers :
          /\ Holds(w) /\ Holds(v) /\ wloc[w].sid = wloc[v].sid
          /\ detached = {}
          => wloc[w].history = wloc[v].history

\* both workers run process_message for the same new session at once: one
\* of them created it, and both hold that one object, still as constructed
C11_Witness ==
    /\ wpc["w1"] = "add_user" /\ wpc["w2"] = "add_user"
    /\ wloc["w1"].sid = wloc["w2"].sid
    /\ wloc["w1"].history = wloc["w2"].history
    /\ heap[wloc["w1"].history] = NewHistory(SYSTEM_PROMPT)
    /\ turns = 2 /\ detached = {}

NonSystem(messages) == SelectSeq(messages, LAMBDA m : m.role # "system")
IsSuffix(a, b) ==
    /\ Len(a) <= Len(b)
    /\ a = SubSeq(b, Len(b) - Len(a) + 1, Len(b))
Min2(a, b) == IF a <= b THEN a ELSE b

\* C12: sessions exist only once a message was sent; a session that is in
\* the map keeps its one history from message to message: the history
\* starts with the system prompt and carries, in order, the most recent
\* messages of the session, at least as many as the trim bound allows;
\* distinct session ids have distinct histories.
C12_SessionKept ==
    /\ Cardinality(DOMAIN sessions) <= turns
    /\ \A s, t \in DOMAIN sessions : s # t => sessions[s] # sessions[t]
    /\ \A s \in DOMAIN sessions :
          LET h == heap[sessions[s]]
          IN /\ h # <<>> /\ h[1].role = "system"
             /\ IsSuffix(NonSystem(h), transcript[s])
             /\ Len(NonSystem(h)) >= Min2(Len(transcript[s]), max_length - 1)

\* the second message of a session is with the LLM, and the history sent
\* holds the first turn's user message and reply before it
C12_Witness ==
    \E w \in Workers :
        /\ wpc[w] = "await_llm" /\ Attached(w)
        /\ wloc[w].call = 2 /\ wloc[w].history = 1
        /\ Cardinality(DOMAIN sessions) = 1
        /\ Len(NonSystem(heap[1])) = 3
        /\ NonSystem(heap[1])[1] = [role |-> "user", content |-> UserMessages[1]]
        /\ NonSystem(heap[1])[2].role = "assistant"
        /\ NonSystem(heap[1])[3] = [role |-> "user", content |-> UserMessages[2]]

\* C13: clear_session returns true exactly when the session existed, and
\* the message that follows a clear of its session is sent with a history
\* of the system prompt and that message only.
C13_ClearThenFresh ==
    \A w, v \in Workers :
        /\ wloc[v].op = "clear_session" /\ wpc[v] = "idle"
           => (wloc[v].ret = "True") = wloc[v].existed
        /\ ( /\ wloc[v].op = "clear_session" /\ wloc[v].ret = "True"
             /\ wpc[w] = "await_llm" /\ wloc[w].sid = wloc[v].sid
             /\ Attached(w) /\ wloc[w].history = wloc[w].call )
           => heap[wloc[w].history] =
                 <<[role |-> "system", content |-> SYSTEM_PROMPT],
                   [role |-> "user", content |-> UserMessages[wloc[w].call]]>>

\* what the sweep of worker w has to remove: judged by the clock reading
\* the sweep took
Overdue(w) ==
    {s \in DOMAIN session_timestamps :
        session_timestamps[s] + SessionTtl < wloc[w].now}

\* C14: the sweep removes every session whose last activity is more than
\* the TTL before the sweep's clock reading and no other, history and
\* timestamp together, returns how many it removed and leaves the other
\* sessions as they were.
C14_SweepRemovesExpired ==
    [][\A w \in Workers :
          wpc[w] = "swp_delete" /\ wpc'[w] = "idle"
          => /\ DOMAIN sessions' = DOMAIN sessions \ Overdue(w)
             /\ DOMAIN session_timestamps' = DOMAIN session_timestamps \ Overdue(w)
             /\ \A s \in DOMAIN sessions' :
                   /\ sessions'[s] = sessions[s]
                   /\ session_timestamps'[s] = session_timestamps[s]
                   /\ heap'[sessions[s]] = heap[sessions[s]]
             /\ wloc'[w].ret = "returned"
             /\ wloc'[w].count = Cardinality(Overdue(w))]_vars

\* a sweep removed one session and left the other, younger one
C14_Witness ==
    \E w \in Workers :
        /\ wloc[w].op = "cleanup_expired_sessions" /\ wpc[w] = "idle"
        /\ wloc[w].count = 1
        /\ lock = "free"
        /\ Cardinality(DOMAIN sessions) = 1
        /\ DOMAIN session_timestamps = DOMAIN sessions
        /\ \A s \in DOMAIN sessions :
              /\ session_timestamps[s] < wloc[w].now
              /\ session_timestamps[s] + SessionTtl >= wloc[w].now

\* ====================================================================
\* SpecContext: the turns of Spec with a Semantic Context Store configured,
\* with and without a conversation logger. Every LLM response carries at
\* most one tool call.
\* ====================================================================
InitContext ==
    /\ Constructed
    /\ context = TRUE
    /\ conv_logger \in BOOLEAN
    /\ _ttl = MaxTtl
    /\ _max_size = MaxSize
    /\ DefaultSettings
    /\ NoServiceCall

LLMCallOne == LLMCall /\ Len(llm_response'.tool_calls) <= 1
FinalLLMCallOne == FinalLLMCall /\ Len(llm_response'.tool_calls) <= 1

NextContext ==
    \/ \E sid \in SessionIds : StartTurn(sid)
    \/ LLMCallOne
    \/ ExecuteTool
    \/ FinalLLMCallOne

SpecContext == InitContext /\ [][NextContext]_vars

\* ------------------------------------------------ claims C15 .. C17
\* format_context_for_prompt's block
CONTEXT_BLOCK == "Here is relevant context from our previous conversations:"
IsContextBlock(m) == m.role # "tool" /\ m.content = CONTEXT_BLOCK

\* C15: when retrieval found records, the history of the turn's first LLM
\* call holds the context block between the system message at index 0 and
\* the turn's user message.
C15_ContextInjected ==
    (contexts = "found" /\ pc = "await_llm" /\ iteration = 1)
    => LET h == heap[history]
       IN /\ h[1] = [role |-> "system", content |-> SYSTEM_PROMPT]
          /\ h[Len(h)] = [role |-> "user", content |-> UserMessages[turns]]
          /\ \E i \in 2..(Len(h) - 1) : IsContextBlock(h[i])

\* the text process_message returns, from the LLM's last response alone
TextOfLastResponse ==
    ContentOr(llm_response.content,
              IF Len(llm_log) > MAX_TOOL_ITERATIONS THEN NO_FORMULATION ELSE NO_RESPONSE)

\* C16: a retrieval that raises leaves the turn running on the history it
\* would have without a context store, and a turn whose retrieval or
\* storage failed is answered 200 with the text of the LLM's last response.
C16_ContextFailureHarmless ==
    /\ (contexts = "raised" /\ pc = "await_llm" /\ iteration = 1)
       => heap[history][Len(heap[history])] =
             [role |-> "user", content |-> UserMessages[turns]]
    /\ (TurnOver /\ (contexts = "raised" \/ stored = "raised")
          /\ LastCall.outcome # "raise")
       => http_response = ChatOk(session_id, TextOfLastResponse)

\* retrieval and storage both failed in a turn that ran a tool round, and
\* the turn was answered with the LLM's text
C16_Witness ==
    /\ TurnOver /\ contexts = "raised" /\ stored = "raised"
    /\ tool_rounds >= 1
    /\ http_response.status = 200 /\ http_response.response = "llm text"

\* the tools executed in the turn just answered: in SpecContext every
\* round executes the one tool call of its response
ExecutedTools == [i \in 1..tool_rounds |-> ToolNames[1]]

\* C17: a turn answered 200 whose upsert went through leaves one record
\* with the question, the answer and the names of the tools executed, with
\* or without a conversation logger; an aborted turn leaves none.
C17_InteractionStored ==
    /\ Cardinality(DOMAIN collection) <= turns
    /\ (TurnOver /\ http_response.status = 200 /\ stored = "ok")
       => /\ <<session_id, turns>> \in DOMAIN collection
          /\ collection[<<session_id, turns>>] =
                [session_id |-> session_id, question |-> UserMessages[turns],
                 answer |-> http_response.response, tools_used |-> ExecutedTools]
    /\ (TurnOver /\ http_response.status = 500)
       => <<session_id, turns>> \notin DOMAIN collection

\* ====================================================================
\* SpecCache: one TTLCache used by several threads. Every public method
\* runs inside `with self._lock:`, reading the clock there, so the
\* threads' calls are atomic steps in any order.
\* ====================================================================
CacheKeys == {"k1", "k2", "k3"}
CacheValues == {"v1", "v2"}

\* what the cache and client actions leave alone
orchestratorVars == <<max_length, sessions, session_timestamps, heap, turns,
                      sessVars, loopVars>>

\* mutant: an entry is still returned at its expiry time
cache_get_inclusive(st, key, t) ==
    IF key \notin DOMAIN st THEN [value |-> None, how |-> "miss", store |-> st]
    ELSE IF t <= st[key].expiry
         THEN [value |-> st[key].value, how |-> "hit", store |-> st]
         ELSE [value |-> None, how |-> "expired", store |-> DropKeys(st, {key})]
\* TTLCache.get at clock reading t: the value, and the store it leaves
cache_get(st, key, t) ==
    IF key \notin DOMAIN st THEN [value |-> None, how |-> "miss", store |-> st]
    ELSE IF t < st[key].expiry
         THEN [value |-> st[key].value, how |-> "hit", store |-> st]
         ELSE [value |-> None, how |-> "expired", store |-> DropKeys(st, {key})]

\* TTLCache._evict_expired
_evict_expired(st, t) == [k \in {j \in DOMAIN st : st[j].expiry > t} |-> st[k]]

\* mutant: the entry of largest expiry is evicted
OldestKeys_newest(st) ==
    {k \in DOMAIN st : \A j \in DOMAIN st : st[k].expiry >= st[j].expiry}
\* min(self._store, key=expiry): the keys of smallest expiry (among equal
\* expiries the dict's iteration order decides, which the model leaves open)
OldestKeys(st) ==
    {k \in DOMAIN st : \A j \in DOMAIN st : st[k].expiry <= st[j].expiry}

\* TTLCache.set, its eviction: the stores it can leave before the write
MakeRoom(st, key, t, max_size) ==
    IF Cardinality(DOMAIN st) >= max_size /\ key \notin DOMAIN st
    THEN LET purged == _evict_expired(st, t)
         IN IF Cardinality(DOMAIN purged) >= max_size
            THEN {DropKeys(purged, {oldest_key}) : oldest_key \in OldestKeys(purged)}
            ELSE {purged}
    ELSE {st}

\* TTLCache.set, its write: self._store[key] = (monotonic() + ttl, value)
PutEntry(st, key, value, t, ttl) ==
    [k \in DOMAIN st \cup {key} |->
        IF k = key THEN [expiry |-> t + ttl, value |-> value] ELSE st[k]]

\* a thread calls get(key)
CacheGet(key) ==
    /\ LET r == cache_get(_store, key, now)
       IN /\ _store' = r.store
          /\ cache_op' = [NoCacheCall EXCEPT !.op = "get", !.key = key, !.how = r.how,
                                             !.result = r.value, !.at = now]
    /\ last_set' = IF key \in DOMAIN last_set /\ now >= last_set[key].at + _ttl
                   THEN DropKeys(last_set, {key}) ELSE last_set
    /\ UNCHANGED <<now, _ttl, _max_size, client_op, orchestratorVars, serviceVars>>

\* a thread calls set(key, value)
CacheSet(key, value) ==
    /\ \E room \in MakeRoom(_store, key, now, _max_size) :
          /\ _store' = PutEntry(room, key, value, now, _ttl)
          /\ last_set' =
                [k \in (DOMAIN last_set \cap DOMAIN room) \cup {key} |->
                    IF k = key THEN [at |-> now, value |-> value] ELSE last_set[k]]
    /\ cache_op' = [NoCacheCall EXCEPT !.op = "set", !.key = key, !.result = value,
                                       !.at = now, !.before = _store]
    /\ UNCHANGED <<now, _ttl, _max_size, client_op, orchestratorVars, serviceVars>>

\* a thread calls invalidate(key)
CacheInvalidate(key) ==
    /\ _store' = DropKeys(_store, {key})
    /\ last_set' = DropKeys(last_set, {key})
    /\ cache_op' = [NoCacheCall EXCEPT !.op = "invalidate", !.key = key, !.at = now,
                       !.result = IF key \in DOMAIN _store THEN "True" ELSE "False"]
    /\ UNCHANGED <<now, _ttl, _max_size, client_op, orchestratorVars, serviceVars>>

\* a thread calls clear()
CacheClear ==
    /\ _store' = <<>>
    /\ last_set' = <<>>
    /\ cache_op' = [NoCacheCall EXCEPT !.op = "clear", !.at = now]
    /\ UNCHANGED <<now, _ttl, _max_size, client_op, orchestratorVars, serviceVars>>

\* TTLCache(ttl_seconds, max_size) of a client, the orchestrator idle
InitCache ==
    /\ Constructed
    /\ max_length = MaxLength
    /\ context = FALSE
    /\ conv_logger = FALSE
    /\ _ttl \in 0..MaxTtl
    /\ _max_size \in 1..MaxSize
    /\ DefaultSettings
    /\ NoServiceCall

NextCache ==
    \/ \E key \in CacheKeys : CacheGet(key)
    \/ \E key \in CacheKeys, value \in CacheValues : CacheSet(key, value)
    \/ \E key \in CacheKeys : CacheInvalidate(key)
    \/ CacheClear
    \/ Tick

SpecCache == InitCache /\ [][NextCache]_vars

\* ------------------------------------------------ claims C18 .. C19
\* C18: a get returns a value only for a key that was set and not removed
\* since (by expiry, eviction, invalidate or clear), only before the time
\* of that set plus the TTL, and it is the value of that set.
C18_NoStaleValue ==
    (cache_op.op = "get" /\ cache_op.how = "hit")
    => /\ cache_op.key \in DOMAIN last_set
       /\ cache_op.at < last_set[cache_op.key].at + _ttl
       /\ cache_op.result = last_set[cache_op.key].value

\* a get found its key's entry at or after the set's time plus the TTL,
\* returned absent and dropped it
C18_Witness ==
    /\ cache_op.op = "get" /\ cache_op.how = "expired"
    /\ cache_op.result = None
    /\ _ttl > 0
    /\ cache_op.key \notin DOMAIN _store

LiveBefore == {k \in DOMAIN cache_op.before : cache_op.before[k].expiry > cache_op.at}

\* C19: the cache never holds more than max_size entries; a set of a new
\* key on a full cache drops every expired entry and, if that leaves it
\* full, one more entry, of smallest expiry; any other set drops nothing.
C19_BoundedEviction ==
    /\ Cardinality(DOMAIN _store) <= _max_size
    /\ cache_op.op = "set"
       => LET before == cache_op.before
              key == cache_op.key
          IN /\ _store[key] = [expiry |-> cache_op.at + _ttl, value |-> cache_op.result]
             /\ \A k \in DOMAIN _store \ {key} : k \in DOMAIN before /\ _store[k] = before[k]
             /\ IF key \in DOMAIN before \/ Cardinality(DOMAIN before) < _max_size
                THEN DOMAIN _store = DOMAIN before \cup {key}
                ELSE IF Cardinality(LiveBefore) < _max_size
                     THEN DOMAIN _store = LiveBefore \cup {key}
                     ELSE \E victim \in LiveBefore :
                            /\ \A k \in LiveBefore :
                                  before[victim].expiry <= before[k].expiry
                            /\ DOMAIN _store = (LiveBefore \ {victim}) \cup {key}

\* a new key was set on a full cache with no expired entry, and the older
\* of its two entries made room
C19_Witness ==
    /\ cache_op.op = "set" /\ cache_op.key \notin DOMAIN cache_op.before
    /\ _max_size = 2 /\ Cardinality(DOMAIN cache_op.before) = 2
    /\ LiveBefore = DOMAIN cache_op.before
    /\ \E k \in DOMAIN cache_op.before :
          /\ k \in DOMAIN _store
          /\ \E j \in DOMAIN cache_op.before :
                cache_op.before[j].expiry < cache_op.before[k].expiry

\* ====================================================================
\* SpecClient: BaseAPIClient.get on the client's own TTLCache. The
\* upstream call (_request_with_retry) returns a parsed body or raises;
\* time passes between the calls.
\* ====================================================================
\* self._client_name = self.__class__.__name__
ClientName == "JikanClient"
\* the endpoint asked for
Endpoints == {"/anime"}
\* the parameter names, in the order sorted() puts them
ParamNames == <<"page", "q">>
\* the params dicts callers pass, as their items in insertion order
RequestParams ==
    {<<>>,
     <<<<"q", "naruto">>>>,
     <<<<"q", "naruto">>, <<"page", None>>>>,
     <<<<"q", "naruto">>, <<"page", "2">>>>,
     <<<<"page", "2">>, <<"q", "naruto">>>>}
\* parsed JSON bodies the upstream answers with
Bodies == {"body1", "body2"}
\* what _request_with_retry does: a body, or an APIClientError after retries
RequestOutcomes == Bodies \cup {"APIClientError"}

\* the dict comprehension of get, and make_key's own filter: v is not None
NonNull(kwargs) == SelectSeq(kwargs, LAMBDA item : item[2] # None)

\* mutant: the items are joined in the order they were passed
make_key_unsorted(prefix, kwargs) == <<prefix, NonNull(kwargs)>>
\* TTLCache.make_key(prefix, **kwargs): the prefix and the "k=v" of the
\* non-null items, sorted by name, joined; the prefix alone without any
make_key(prefix, kwargs) ==
    LET items == NonNull(kwargs)
        names == {items[i][1] : i \in DOMAIN items}
        sorted_names == SelectSeq(ParamNames, LAMBDA n : n \in names)
        value_of(n) == (CHOOSE i \in DOMAIN items : items[i][1] = n)
    IN <<prefix, [j \in DOMAIN sorted_names |->
                    <<sorted_names[j], items[value_of(sorted_names[j])][2]>>]>>

\* f"{self._client_name}:GET:{endpoint}"
KeyPrefix(endpoint) == <<ClientName, "GET", endpoint>>

\* BaseAPIClient.get(endpoint, params, use_cache)
ClientGet(endpoint, params, use_cache) ==
    LET cache_key == make_key(KeyPrefix(endpoint), params)
        cached == IF use_cache THEN cache_get(_store, cache_key, now)
                  ELSE [value |-> None, how |-> "unused", store |-> _store]
        call == [op |-> "get", endpoint |-> endpoint, params |-> params,
                 use_cache |-> use_cache, outbound |-> FALSE, result |-> None]
    IN /\ IF use_cache /\ cached.value # None
          THEN /\ _store' = cached.store
               /\ client_op' = [call EXCEPT !.result = cached.value]
               /\ UNCHANGED now
          ELSE \E result \in RequestOutcomes :
                 /\ client_op' = [call EXCEPT !.outbound = TRUE, !.result = result]
                 /\ IF use_cache /\ result \in Bodies
                    THEN \E room \in MakeRoom(cached.store, cache_key, now, _max_size) :
                            _store' = PutEntry(room, cache_key, result, now, _ttl)
                    ELSE _store' = cached.store
                 /\ UNCHANGED now
       /\ UNCHANGED <<_ttl, _max_size, last_set, cache_op, orchestratorVars,
                     serviceVars>>

NextClient ==
    \/ \E endpoint \in Endpoints, params \in RequestParams, use_cache \in BOOLEAN :
          ClientGet(endpoint, params, use_cache)
    \/ Tick

SpecClient == InitCache /\ [][NextClient]_vars

\* ------------------------------------------------------- claim C20
\* the request a cache key stands for: client, endpoint, non-null params
SameRequest(key, endpoint, params) ==
    /\ key[1] = <<ClientName, "GET", endpoint>>
    /\ {key[2][i] : i \in DOMAIN key[2]} =
          {params[i] : i \in {j \in DOMAIN params : params[j][2] # None}}

RequestEndpoint == "/anime"
RequestKey == make_key(KeyPrefix(RequestEndpoint), <<>>)

\* the status codes the upstream answers with
Statuses == {200, 400, 404, 429, 500, 503}
\* mutant: 404 is retried as well
RETRYABLE_STATUS_CODES_with_404 == {404, 429, 500, 503}
\* RETRYABLE_STATUS_CODES, as far as the upstream uses them
RETRYABLE_STATUS_CODES == {429, 500, 503}
\* the Retry-After header of a 429: absent, delay-seconds, or an HTTP-date
RetryAfterHeaders == {None, "1", "Wed, 21 Oct 2015 07:28:00 GMT"}
\* response.headers.get("Retry-After", 2)
DEFAULT_RETRY_AFTER == 2
\* float(x) of the header's text: a number, or ValueError for other text
IsNumber(x) == x \in {"1"}
float(x) == CASE x = "1" -> 1
\* what an attempt meets: a response, or an exception of the transport
Responses ==
    [kind : {"response"}, status : Statuses \ {429}, header : {None}]
        \cup [kind : {"response"}, status : {429}, header : RetryAfterHeaders]
        \cup [kind : {"TimeoutException", "HTTPError"}, status : {0}, header : {None}]

\* 2 ** n
RECURSIVE Pow2(_)
Pow2(n) == IF n = 0 THEN 1 ELSE 2 * Pow2(n - 1)

\* the exceptions of app.utils.exceptions a get ends with
APIRateLimitError(retry_after) ==
    [kind |-> "APIRateLimitError", client_name |-> ClientName,
     retry_after |-> retry_after]
APITimeoutError == [kind |-> "APITimeoutError", client_name |-> ClientName]
APIClientError(endpoint, upstream_status) ==
    [kind |-> "APIClientError", client_name |-> ClientName,
     endpoint |-> endpoint, upstream_status |-> upstream_status]
RetriesExhausted(endpoint) ==
    [kind |-> "APIClientError", client_name |-> ClientName,
     endpoint |-> endpoint, message |-> "All retries exhausted"]

\* the log of request starts, kept to its last two entries
Started(log, t) == PyTail(Append(log, t), 2)

\* what the steps of a get leave alone
notHttpVars == <<max_length, sessions, session_timestamps, heap, turns,
                 sessVars, loopVars, _ttl, _max_size, last_set, cache_op, client_op,
                 service_call>>

\* the get of thread w is over: only its last response and outcome are kept
Finish(w, use_cache, last, result) ==
    /\ hpc' = [hpc EXCEPT ![w] = "done"]
    /\ hloc' = [hloc EXCEPT ![w] = [NoGet EXCEPT !.use_cache = use_cache,
                                       !.last = last, !.result = result]]

\* the head of `for attempt in range(1, self._max_retries + 1)`: the next
\* attempt after a sleep of `delay`, or the raise after the loop
NextAttempt(w, use_cache, attempt, delay, last) ==
    IF attempt <= _max_retries
    THEN /\ hpc' = [hpc EXCEPT ![w] = "rate_limit_wait"]
         /\ hloc' = [hloc EXCEPT ![w] = [NoGet EXCEPT !.use_cache = use_cache,
                                            !.attempt = attempt,
                                            !.wake = now + delay, !.last = last]]
    ELSE Finish(w, use_cache, last, RetriesExhausted(RequestEndpoint))

\* get(endpoint, params, use_cache) up to the first attempt (lines 111-125)
GetBegin(w, use_cache) ==
    /\ hpc[w] \in {"idle", "done"}
    /\ LET cached == IF use_cache THEN cache_get(_store, RequestKey, now)
                     ELSE [value |-> None, how |-> "unused", store |-> _store]
       IN /\ _store' = cached.store
          /\ IF use_cache /\ cached.value # None
             THEN Finish(w, use_cache, NoResponse, [kind |-> "return", body |-> cached.value])
             ELSE NextAttempt(w, use_cache, 1, 0, NoResponse)
    /\ UNCHANGED <<now, _rate_limit, _max_retries, _last_request_time, requests,
                   notHttpVars>>

\* _rate_limit_wait up to its sleep (lines 261-273), entered once the sleep
\* of the attempt before is over. Without a rate limit it returns at once
\* and the request goes out.
RateLimitWait(w) ==
    /\ hpc[w] = "rate_limit_wait"
    /\ now >= hloc[w].wake
    /\ IF _rate_limit <= 0
       THEN /\ hpc' = [hpc EXCEPT ![w] = "response"]
            /\ requests' = Started(requests, now)
            /\ UNCHANGED hloc
       ELSE LET elapsed == now - _last_request_time
                sleep_time == IF elapsed < _rate_limit THEN _rate_limit - elapsed
                              ELSE 0
            IN /\ hpc' = [hpc EXCEPT ![w] = "stamp"]
               /\ hloc' = [hloc EXCEPT ![w].wake = now + sleep_time]
               /\ UNCHANGED requests
    /\ UNCHANGED <<now, _rate_limit, _max_retries, _last_request_time, _store,
                   notHttpVars>>

\* the end of _rate_limit_wait, after its sleep: _last_request_time is
\* set (line 275) and the request goes out (line 165), at one reading of
\* the clock
Stamp(w) ==
    /\ hpc[w] = "stamp"
    /\ now >= hloc[w].wake
    /\ _last_request_time' = now
    /\ requests' = Started(requests, now)
    /\ hpc' = [hpc EXCEPT ![w] = "response"]
    /\ UNCHANGED <<now, _rate_limit, _max_retries, hloc, _store, notHttpVars>>

\* the rest of the loop body (lines 166-251) for what the attempt met, and
\* on success the rest of get (lines 128-131)
Respond(w, r) ==
    LET attempt == hloc[w].attempt
        use_cache == hloc[w].use_cache
        last == [kind |-> r.kind, status |-> r.status, header |-> r.header,
                 attempt |-> attempt]
        retry(delay) == NextAttempt(w, use_cache, attempt + 1, delay, last)
    IN /\ hpc[w] = "response"
       /\ IF r.kind = "TimeoutException"
          THEN IF attempt < _max_retries THEN retry(Pow2(attempt - 1))
               ELSE Finish(w, use_cache, last, APITimeoutError)
          ELSE IF r.kind = "HTTPError"
          THEN IF attempt < _max_retries THEN retry(Pow2(attempt - 1))
               ELSE retry(0)
          ELSE IF r.status = 429
          THEN IF r.header # None /\ ~IsNumber(r.header)
               THEN Finish(w, use_cache, last, [kind |-> "ValueError"])
               ELSE LET retry_after == IF r.header = None THEN DEFAULT_RETRY_AFTER
                                       ELSE float(r.header)
                    IN IF attempt < _max_retries THEN retry(retry_after)
                       ELSE Finish(w, use_cache, last, APIRateLimitError(retry_after))
          ELSE IF r.status \in RETRYABLE_STATUS_CODES /\ attempt < _max_retries
          THEN retry(Pow2(attempt - 1))
          ELSE IF r.status >= 400
          THEN Finish(w, use_cache, last, APIClientError(RequestEndpoint, r.status))
          ELSE \E body \in Bodies :
                 Finish(w, use_cache, last, [kind |-> "return", body |-> body])
       /\ IF hpc'[w] = "done" /\ hloc'[w].result.kind = "return" /\ use_cache
          THEN \E room \in MakeRoom(_store, RequestKey, now, _max_size) :
                  _store' = PutEntry(room, RequestKey, hloc'[w].result.body, now, _ttl)
          ELSE UNCHANGED _store
       /\ UNCHANGED <<now, _rate_limit, _max_retries, _last_request_time, requests,
                      notHttpVars>>

\* time passes
Elapse ==
    /\ now < MaxTime
    /\ now' = now + 1
    /\ UNCHANGED <<_rate_limit, _max_retries, _last_request_time, hpc, hloc,
                   requests, _store, notHttpVars>>

\* create_app's clients: rate_limit >= 0 and HTTP_MAX_RETRIES >= 0
InitHttp ==
    /\ Constructed
    /\ max_length = MaxLength
    /\ context = FALSE
    /\ conv_logger = FALSE
    /\ _ttl = MaxTtl
    /\ _max_size = MaxSize
    /\ _rate_limit \in 0..MaxRateLimit
    /\ _max_retries \in 0..MaxRetries
    /\ NoServiceCall

NextHttp ==
    \/ \E w \in Workers, use_cache \in BOOLEAN :
          hpc[w] = "idle" /\ GetBegin(w, use_cache)
    \/ \E w \in Workers : RateLimitWait(w)
    \/ \E w \in Workers : Stamp(w)
    \/ \E w \in Workers, r \in Responses : Respond(w, r)
    \/ Elapse

SpecHttp == InitHttp /\ [][NextHttp]_vars

\* one thread, get after get
NextRetry ==
    \/ \E use_cache \in BOOLEAN : GetBegin("w1", use_cache)
    \/ RateLimitWait("w1")
    \/ Stamp("w1")
    \/ \E r \in Responses : Respond("w1", r)
    \/ Elapse

SpecRetry == InitHttp /\ [][NextRetry]_vars

\* ------------------------------------------------------- claim C21
\* the retry-after hint of a 429: the header's number, or the default
Hint(header) == IF header = None THEN DEFAULT_RETRY_AFTER ELSE float(header)

\* C21: a get that ended after a 429 ended at its last attempt, with
\* APIRateLimitError carrying the hint of that response (the header's value
\* or the default); a get that ended after a timeout ended at its last
\* attempt, with APITimeoutError; so before the last attempt a 429 or a
\* timeout is followed by another attempt, and no error reaches the caller.
C21_ErrorMatchesLastFailure ==
    \A w \in Workers :
       LET last == hloc[w].last
       IN /\ (hpc[w] = "done" /\ last.kind = "response" /\ last.status = 429)
                => /\ last.attempt = _max_retries
                   /\ hloc[w].result.kind = "APIRateLimitError"
                   /\ last.header = None
                         => hloc[w].result.retry_after = DEFAULT_RETRY_AFTER
                   /\ (last.header # None /\ IsNumber(last.header))
                         => hloc[w].result.retry_after = float(last.header)
          /\ (hpc[w] = "done" /\ last.kind = "TimeoutException")
                => /\ last.attempt = _max_retries
                   /\ hloc[w].result = APITimeoutError
          /\ (hpc[w] = "rate_limit_wait" /\ last.kind = "TimeoutException")
                => hloc[w].attempt = last.attempt + 1
          /\ (hpc[w] = "rate_limit_wait" /\ last.kind = "response"
                                         /\ last.status = 429)
                => hloc[w].attempt = last.attempt + 1

\* ------------------------------------------------------- claim C22
\* the status codes 400..499 other than 429
NonRetryable4xx == (400..499) \ {429}

\* C22: when an attempt of a get is answered with a 4xx other than 429,
\* the get ends in that step with APIClientError carrying the endpoint and
\* the status, whatever the attempt number: no sleep, no further request,
\* and the cache is left as it was.
C22_ClientErrorAtOnce ==
    [][\A w \in Workers :
          (/\ hpc[w] = "response"
           /\ hpc'[w] # "response"
           /\ hloc'[w].last.kind = "response"
           /\ hloc'[w].last.status \in NonRetryable4xx)
             => /\ hpc'[w] = "done"
                /\ hloc'[w].result =
                      APIClientError(RequestEndpoint, hloc'[w].last.status)
                /\ _store' = _store
                /\ requests' = requests]_vars

\* the first of three attempts was answered 404 and the get, one that uses
\* the cache, is over with one request made and nothing cached
C22_Witness ==
    /\ _max_retries = 2
    /\ hpc["w1"] = "done"
    /\ hloc["w1"].use_cache
    /\ hloc["w1"].last.kind = "response"
    /\ hloc["w1"].last.status = 404
    /\ hloc["w1"].last.attempt = 1
    /\ hloc["w1"].result = APIClientError(RequestEndpoint, 404)
    /\ Len(requests) = 1
    /\ _store = <<>>

\* ------------------------------------------------------- claim C23
\* C23: any two consecutive outbound requests of the client instance,
\* retries and the requests of concurrent threads included, start at
\* least rate_limit seconds apart.
C23_RequestsPaced ==
    \A i \in 2..Len(requests) : requests[i] - requests[i - 1] >= _rate_limit

\* ====================================================================
\* SpecRouter: ToolRouter.execute called with a tool name and arguments,
\* the adapter method returning a value or raising.
\* ====================================================================
\* the keys of self._tool_map, in the order of the dict
AvailableTools ==
    <<"search_anime", "get_anime_details", "search_manga", "get_manga_details",
      "get_top_anime", "get_seasonal_anime", "search_tv_shows",
      "get_tv_show_details", "get_tv_episode", "get_tv_schedule",
      "search_books", "get_book_by_isbn", "search_authors">>
\* names the LLM may ask for that are no tool
UnknownTools == {"nonexistent_tool", "get_anime_by_id"}

ToolEntry(client_key, method_name, arg_mapping) ==
    [client_key |-> client_key, method_name |-> method_name,
     arg_mapping |-> arg_mapping]
\* an arg_mapping of one name; the empty one is <<>>
Renames(from, to) == [k \in {from} |-> to]

\* mutant: a fourteenth entry, under a name that is no tool
_tool_map_with_unknown ==
    [nonexistent_tool |-> ToolEntry("jikan", "search_anime", <<>>)]
\* self._tool_map
_tool_map ==
    [search_anime |-> ToolEntry("jikan", "search_anime", <<>>),
     get_anime_details |->
        ToolEntry("jikan", "get_anime_by_id", Renames("anime_id", "anime_id")),
     search_manga |-> ToolEntry("jikan", "search_manga", <<>>),
     get_manga_details |->
        ToolEntry("jikan", "get_manga_by_id", Renames("manga_id", "manga_id")),
     get_top_anime |->
        ToolEntry("jikan", "get_top_anime", Renames("filter", "filter_type")),
     get_seasonal_anime |-> ToolEntry("jikan", "get_season_anime", <<>>),
     search_tv_shows |-> ToolEntry("tvmaze", "search_shows", <<>>),
     get_tv_show_details |->
        ToolEntry("tvmaze", "get_show_with_details", <<>>),
     get_tv_episode |-> ToolEntry("tvmaze", "get_episode_by_number", <<>>),
     get_tv_schedule |-> ToolEntry("tvmaze", "get_schedule", <<>>),
     search_books |-> ToolEntry("openlibrary", "search_books", <<>>),
     get_book_by_isbn |->
        ToolEntry("openlibrary", "get_edition_by_isbn", <<>>),
     search_authors |-> ToolEntry("openlibrary", "search_authors", <<>>)]

\* the arguments dicts of a tool call, as their items in insertion order
ToolArguments ==
    {<<>>,
     <<<<"query", "naruto">>>>,
     <<<<"anime_id", "20">>>>,
     <<<<"filter", "airing">>, <<"limit", "5">>>>}

\* _map_arguments(arguments, mapping)
_map_arguments(arguments, mapping) ==
    IF mapping = <<>> THEN arguments
    ELSE [i \in DOMAIN arguments |->
            <<IF arguments[i][1] \in DOMAIN mapping THEN mapping[arguments[i][1]]
              ELSE arguments[i][1],
              arguments[i][2]>>]

\* what adapters return in lists: Pydantic models (fields, some of them
\* None), dicts, and other values
Items ==
    {[type |-> "model", fields |-> <<<<"title", "Naruto">>, <<"year", None>>>>],
     [type |-> "dict", fields |-> <<<<"title", "Bleach">>, <<"year", None>>>>],
     [type |-> "other", text |-> "One Piece"]}
\* the lists of at most n items
RECURSIVE ListsUpTo(_)
ListsUpTo(n) ==
    IF n = 0 THEN {<<>>}
    ELSE LET shorter == ListsUpTo(n - 1)
         IN shorter \cup {Append(l, item) : l \in {k \in shorter : Len(k) = n - 1},
                                            item \in Items}
\* what an adapter method returns
AdapterValues ==
    {[type |-> "None"]}
        \cup {[type |-> "list", items |-> l] : l \in ListsUpTo(MaxItems)}
        \cup {item \in Items : item.type # "other"}
        \cup {[type |-> "other", text |-> "42"]}
\* what an adapter method raises
AdapterErrors ==
    {[type |-> "APIRateLimitError", message |-> "API rate limit exceeded"],
     [type |-> "APITimeoutError", message |-> "API request timed out"],
     [type |-> "APIClientError", message |-> "HTTP 404 for /anime/20"],
     [type |-> "TypeError", message |-> "unexpected keyword argument"],
     [type |-> "Exception", message |-> "Connection failed"]}

\* item.model_dump(exclude_none=True), a dict as it is, str(item) otherwise
\* (lines 188-193)
SerializeItem(item) ==
    IF item.type = "model" THEN [object |-> NonNull(item.fields)]
    ELSE IF item.type = "dict" THEN [object |-> item.fields]
    ELSE [string |-> item.text]

\* mutant: items that are neither models nor dicts are left out
SerializeList_skipping(items) ==
    LET kept == SelectSeq(items, LAMBDA item : item.type # "other")
    IN [i \in DOMAIN kept |-> SerializeItem(kept[i])]
\* the loop of lines 186-193
SerializeList(items) == [i \in DOMAIN items |-> SerializeItem(items[i])]

\* ToolRouter._serialize_result(result), lines 179-216 (a dict result has
\* no nested models here)
_serialize_result(result) ==
    IF result.type = "None" THEN json_dumps([result |-> "No results found."])
    ELSE IF result.type = "list"
    THEN IF result.items = <<>>
         THEN json_dumps([result |-> "No results found.", count |-> 0])
         ELSE LET serialized_items == SerializeList(result.items)
              IN json_dumps([results |-> serialized_items,
                             count |-> Len(serialized_items)])
    ELSE IF result.type = "model" THEN json_dumps(NonNull(result.fields))
    ELSE IF result.type = "dict" THEN json_dumps(result.fields)
    ELSE json_dumps([result |-> result.text])

\* ToolExecutionError(tool_name, message): "Tool '<name>' failed: <message>"
ToolExecutionError(tool_name, message) ==
    [type |-> "ToolExecutionError", tool_name |-> tool_name,
     message |-> <<"Tool", tool_name, "failed:", message>>]

\* mutant: what the adapter raised leaves execute as it is
OnAdapterError_reraise(tool_name, e) == e
\* the except clauses of execute (lines 129-141): str(e) wrapped
OnAdapterError(tool_name, e) ==
    IF e.type = "ToolExecutionError" THEN e
    ELSE ToolExecutionError(tool_name, e.message)

\* ToolRouter.execute(tool_name, arguments), the adapter method behaving
\* as `behaviour` says when it is called: what execute returns or raises,
\* and the adapter methods it invoked
execute(tool_name, arguments, behaviour) ==
    IF tool_name \notin DOMAIN _tool_map
    THEN [raised |-> TRUE, invoked |-> <<>>,
          error |-> ToolExecutionError(tool_name,
                                       <<"Unknown tool:", tool_name, AvailableTools>>)]
    ELSE LET entry == _tool_map[tool_name]
             mapped_args == _map_arguments(arguments, entry.arg_mapping)
             invoked == <<[client_key |-> entry.client_key,
                           method_name |-> entry.method_name,
                           args |-> mapped_args]>>
         IN IF behaviour.raises
            THEN [raised |-> TRUE, invoked |-> invoked,
                  error |-> OnAdapterError(tool_name, behaviour.error)]
            ELSE [raised |-> FALSE, invoked |-> invoked,
                  value |-> _serialize_result(behaviour.value)]

\* how the adapter method behaves when called
AdapterBehaviours ==
    [raises : {FALSE}, value : AdapterValues]
        \cup [raises : {TRUE}, error : AdapterErrors]

\* the state outside the services called on their own
notServiceCall == <<max_length, sessions, session_timestamps, now, heap, turns,
                    sessVars, loopVars, cacheVars, httpVars>>

\* the calls of a service that are still to run
Pending(op, inputs) == [op : {op}, inputs : inputs, done : {FALSE}]
\* the call has run and did `did`
Ran(did) == [op |-> service_call.op, inputs |-> service_call.inputs,
             done |-> TRUE, did |-> did]

\* the application as create_app builds it by default, a service about to
\* be called with one of `calls`
ServiceInit(calls) ==
    /\ Constructed
    /\ max_length = MaxLength
    /\ context = FALSE
    /\ conv_logger = FALSE
    /\ _ttl = MaxTtl
    /\ _max_size = MaxSize
    /\ DefaultSettings
    /\ service_call \in calls

\* the calls of ToolRouter.execute: tool name, arguments, and how the
\* adapter method behaves when it is called
RouterCalls ==
    Pending("execute",
            [tool_name : DOMAIN _tool_map \cup UnknownTools,
             arguments : ToolArguments, behaviour : AdapterBehaviours])

\* ToolRouter.execute runs
RouterExecute ==
    /\ service_call.op = "execute"
    /\ ~service_call.done
    /\ service_call' = Ran(execute(service_call.inputs.tool_name,
                                   service_call.inputs.arguments,
                                   service_call.inputs.behaviour))
    /\ UNCHANGED notServiceCall

NextRouter == RouterExecute

SpecRouter == ServiceInit(RouterCalls) /\ [][NextRouter]_vars

\* ------------------------------------------------------- claim C24
\* an execute that has run, and its inputs
Executed == service_call.op = "execute" /\ service_call.done
Registered == {AvailableTools[i] : i \in DOMAIN AvailableTools}

\* C24: execute with a name that is none of the registered tools fails
\* with the ToolExecutionError "Unknown tool" and invokes no adapter
\* method, whatever the arguments.
C24_UnknownToolFails ==
    (Executed /\ service_call.inputs.tool_name \notin Registered)
       => /\ service_call.did.raised
          /\ service_call.did.error.type = "ToolExecutionError"
          /\ service_call.did.error.message[4][1] = "Unknown tool:"
          /\ service_call.did.invoked = <<>>

\* execute("nonexistent_tool", {"query": "naruto"}) has run
C24_Witness ==
    /\ Executed
    /\ service_call.inputs.tool_name = "nonexistent_tool"
    /\ service_call.inputs.arguments = <<<<"query", "naruto">>>>
    /\ service_call.did.raised

\* ------------------------------------------------------- claim C25
\* C25: execute with a registered name whose adapter method raises fails
\* with ToolExecutionError naming the tool and carrying the message of what
\* was raised; no other exception type leaves execute.
C25_AdapterErrorWrapped ==
    (/\ Executed
     /\ service_call.inputs.tool_name \in Registered
     /\ service_call.inputs.behaviour.raises)
       => /\ service_call.did.raised
          /\ service_call.did.error.type = "ToolExecutionError"
          /\ service_call.did.error.tool_name = service_call.inputs.tool_name
          /\ service_call.did.error.message[4] =
                service_call.inputs.behaviour.error.message
          /\ Len(service_call.did.invoked) = 1

\* get_anime_details ran into the adapter's APIRateLimitError
C25_Witness ==
    /\ Executed
    /\ service_call.inputs.tool_name = "get_anime_details"
    /\ service_call.inputs.behaviour.raises
    /\ service_call.inputs.behaviour.error.type = "APIRateLimitError"
    /\ service_call.did.error.type = "ToolExecutionError"

\* ------------------------------------------------------- claim C26
\* the JSON value json.dumps encoded
Decoded(text) == text[2]
\* the title an item carries, and the title of an entry of `results`
ItemTitle(item) == IF item.type = "other" THEN item.text ELSE item.fields[1][2]
EntryTitle(entry) ==
    IF "object" \in DOMAIN entry THEN entry.object[1][2] ELSE entry.string
\* an execute whose adapter method returned a value of the given type
Returned_of(type) ==
    /\ Executed
    /\ service_call.inputs.tool_name \in Registered
    /\ ~service_call.inputs.behaviour.raises
    /\ service_call.inputs.behaviour.value.type = type

\* C26: an empty list is serialized to the "no results" marker with count
\* 0; a non-empty list to an object whose results has one entry per item,
\* in the order of the list, and whose count is the length of the list.
C26_ListSerialized ==
    Returned_of("list")
       => LET items == service_call.inputs.behaviour.value.items
              out == Decoded(service_call.did.value)
          IN IF items = <<>>
             THEN out = [result |-> "No results found.", count |-> 0]
             ELSE /\ out.count = Len(items)
                  /\ Len(out.results) = Len(items)
                  /\ \A i \in DOMAIN items :
                        EntryTitle(out.results[i]) = ItemTitle(items[i])

\* a list of a value that is no model and a model was serialized
C26_Witness ==
    /\ Returned_of("list")
    /\ Len(service_call.inputs.behaviour.value.items) = 2
    /\ service_call.inputs.behaviour.value.items[1].type = "other"
    /\ service_call.inputs.behaviour.value.items[2].type = "model"
    /\ Decoded(service_call.did.value).count = 2

\* ------------------------------------------------------- claim C27
\* C27: a None result is serialized like an empty collection: the "no
\* results" marker together with a count of 0.
C27_NoneLikeEmpty ==
    Returned_of("None")
       => Decoded(service_call.did.value) =
             [result |-> "No results found.", count |-> 0]

\* ====================================================================
\* SpecParse: LLMService._parse_response on the JSON body of a completion.
\* ====================================================================
\* the `arguments` of a raw tool call: JSON text that decodes, text cut
\* short, empty text, or a dict already
VALID_JSON == "{\"query\": \"naruto\"}"
TRUNCATED_JSON == "{\"query\": "
ArgumentValues ==
    {[type |-> "str", text |-> VALID_JSON],
     [type |-> "str", text |-> TRUNCATED_JSON],
     [type |-> "str", text |-> ""],
     [type |-> "dict", value |-> [query |-> "naruto"]]}

\* json.loads(text): the value, or json.JSONDecodeError
Decodes(text) == text = VALID_JSON
json_loads(text) == CASE text = VALID_JSON -> [query |-> "naruto"]

\* message["tool_calls"] of n entries with the given arguments; the i-th
\* entry has the id <<"call", i>> and names the i-th tool
RawToolCalls(arguments) ==
    [i \in DOMAIN arguments |->
        [id |-> <<"call", i>>,
         function |-> [name |-> ToolNames[i], arguments |-> arguments[i]]]]
RECURSIVE ArgumentLists(_)
ArgumentLists(n) ==
    IF n = 0 THEN {<<>>}
    ELSE LET shorter == ArgumentLists(n - 1)
         IN shorter \cup {Append(l, a) : l \in {k \in shorter : Len(k) = n - 1},
                                         a \in ArgumentValues}

\* the bodies OpenRouter answers with: one choice, or none
Completions ==
    {[choices |-> <<[message |-> [content |-> content,
                                  tool_calls |-> RawToolCalls(arguments)]]>>] :
        content \in Contents, arguments \in ArgumentLists(MaxCalls)}
        \cup {[choices |-> <<>>]}

\* whether the try of lines 269-283 gets through for the entry
Parses(tc) ==
    tc.function.arguments.type = "str" => Decodes(tc.function.arguments.text)
\* ToolCall(id, name, arguments) of an entry that parses
ParsedToolCall(tc) ==
    [id |-> tc.id, name |-> tc.function.name,
     arguments |-> IF tc.function.arguments.type = "str"
                   THEN json_loads(tc.function.arguments.text)
                   ELSE tc.function.arguments.value]

\* mutant: one entry that fails to decode empties the list
ParseToolCalls_all_or_nothing(raw_tool_calls) ==
    IF \A i \in DOMAIN raw_tool_calls : Parses(raw_tool_calls[i])
    THEN [i \in DOMAIN raw_tool_calls |-> ParsedToolCall(raw_tool_calls[i])]
    ELSE <<>>
\* the loop of lines 266-290
ParseToolCalls(raw_tool_calls) ==
    LET kept == SelectSeq(raw_tool_calls, Parses)
    IN [i \in DOMAIN kept |-> ParsedToolCall(kept[i])]

\* LLMService._parse_response(data)
_parse_response(data) ==
    IF data.choices = <<>>
    THEN [raised |-> TRUE,
          error |-> [type |-> "LLMServiceError",
                     message |-> "OpenRouter returned no choices in response"]]
    ELSE LET message == data.choices[1].message
         IN [raised |-> FALSE,
             response |-> [content |-> message.content,
                           tool_calls |-> ParseToolCalls(message.tool_calls)]]

ParseCalls == Pending("_parse_response", [data : Completions])

\* _parse_response runs
ParseResponse ==
    /\ service_call.op = "_parse_response"
    /\ ~service_call.done
    /\ service_call' = Ran(_parse_response(service_call.inputs.data))
    /\ UNCHANGED notServiceCall

NextParse == ParseResponse

SpecParse == ServiceInit(ParseCalls) /\ [][NextParse]_vars

\* ------------------------------------------------------- claim C28
\* a body with a choice has been parsed
Parsed ==
    /\ service_call.op = "_parse_response"
    /\ service_call.done
    /\ service_call.inputs.data.choices # <<>>
\* the ids of the tool-call entries of a sequence
IdsOf(calls) == {calls[i].id : i \in DOMAIN calls}

\* C28: of the tool-call entries of a response exactly those whose
\* arguments fail to decode are dropped, the others are kept in their
\* order; the response does not fail, and has_tool_calls is true iff some
\* entry decoded.
C28_BestEffortParse ==
    Parsed
       => LET raw == service_call.inputs.data.choices[1].message.tool_calls
              did == service_call.did
              fails(tc) == /\ tc.function.arguments.type = "str"
                           /\ tc.function.arguments.text # VALID_JSON
          IN /\ ~did.raised
             /\ IdsOf(did.response.tool_calls) =
                   {raw[i].id : i \in {j \in DOMAIN raw : ~fails(raw[j])}}
             /\ \A i, j \in DOMAIN did.response.tool_calls :
                   i < j => did.response.tool_calls[i].id[2]
                               < did.response.tool_calls[j].id[2]
             /\ has_tool_calls(did.response)
                   <=> \E i \in DOMAIN raw : ~fails(raw[i])

\* the first of two entries had arguments cut short, the second was kept
C28_Witness ==
    /\ Parsed
    /\ Len(service_call.inputs.data.choices[1].message.tool_calls) = 2
    /\ service_call.inputs.data.choices[1].message.tool_calls[1]
          .function.arguments = [type |-> "str", text |-> TRUNCATED_JSON]
    /\ Len(service_call.did.response.tool_calls) = 1
    /\ service_call.did.response.tool_calls[1].id = <<"call", 2>>

\* ====================================================================
\* SpecLLM: LLMService.chat_completion, its _send_request loop fed with
\* what the upstream does at each attempt.
\* ====================================================================
\* response.headers.get("Retry-After", 5)
LLM_DEFAULT_RETRY_AFTER == 5

\* the bodies of a 200: a text, a tool call, or no choice at all
NoChoices == [choices |-> <<>>]
LLMBodies ==
    {[choices |-> <<[message |-> [content |-> "llm text", tool_calls |-> <<>>]]>>],
     [choices |-> <<[message |->
        [content |-> None,
         tool_calls |-> RawToolCalls(<<[type |-> "str", text |-> VALID_JSON]>>)]]>>],
     NoChoices}

\* what an attempt meets: a status (with the Retry-After header of a 429,
\* the body of a 200), a timeout, or another exception of the transport
LLMAnswers ==
    [kind : {"response"}, status : {429}, header : RetryAfterHeaders,
     body : {NoChoices}]
        \cup [kind : {"response"}, status : {400, 500, 503}, header : {None},
              body : {NoChoices}]
        \cup [kind : {"response"}, status : {200}, header : {None},
              body : LLMBodies]
        \cup [kind : {"TimeoutException", "ConnectError"}, status : {0},
              header : {None}, body : {NoChoices}]

\* the exceptions of app.utils.exceptions chat_completion ends with
LLMServiceError(message) == [type |-> "LLMServiceError", message |-> message]
LLMRateLimitError(retry_after) ==
    [type |-> "LLMRateLimitError", retry_after |-> retry_after]

\* what _send_request ends with after `attempts` requests and the sleeps
Raises(error, attempts, slept) ==
    [raised |-> TRUE, error |-> error, attempts |-> attempts, slept |-> slept]

\* LLMService._send_request from the head of its loop at `attempt`:
\* answers[attempt] is what self._client.post meets
RECURSIVE _send_request(_, _, _, _)
_send_request(answers, max_retries, attempt, slept) ==
    IF attempt > max_retries
    THEN Raises(LLMServiceError("All LLM retries exhausted"), attempt - 1, slept)
    ELSE LET a == answers[attempt]
             again(delay) == _send_request(answers, max_retries, attempt + 1,
                                           Append(slept, delay))
         IN IF a.kind = "TimeoutException"
            THEN IF attempt < max_retries THEN again(Pow2(attempt))
                 ELSE Raises(LLMServiceError("OpenRouter request timed out"),
                             attempt, slept)
            ELSE IF a.kind # "response"
            THEN Raises(LLMServiceError("Unexpected LLM error"), attempt, slept)
            ELSE IF a.status = 429
            THEN IF a.header # None /\ ~IsNumber(a.header)
                 THEN Raises(LLMServiceError("Unexpected LLM error"), attempt, slept)
                 ELSE LET retry_after == IF a.header = None
                                         THEN LLM_DEFAULT_RETRY_AFTER
                                         ELSE float(a.header)
                      IN IF attempt < max_retries THEN again(retry_after)
                         ELSE Raises(LLMRateLimitError(retry_after), attempt, slept)
            ELSE IF a.status >= 400
            THEN IF attempt < max_retries THEN again(Pow2(attempt))
                 ELSE Raises(LLMServiceError("OpenRouter API error"), attempt, slept)
            ELSE LET result == _parse_response(a.body)
                 IN IF result.raised
                    THEN Raises(result.error, attempt, slept)
                    ELSE [raised |-> FALSE, response |-> result.response,
                          attempts |-> attempt, slept |-> slept]

\* the sequences of n answers
RECURSIVE AnswerLists(_)
AnswerLists(n) ==
    IF n = 0 THEN {<<>>}
    ELSE {Append(l, a) : l \in AnswerLists(n - 1), a \in LLMAnswers}

\* chat_completion on a service of max_retries attempts, the upstream
\* answering the attempts with `answers`
CompletionCalls ==
    UNION {Pending("chat_completion",
                   [max_retries : {n}, answers : AnswerLists(n)]) :
              n \in 1..MaxRetries}

\* chat_completion runs (the payload does not matter to the loop)
ChatCompletion ==
    /\ service_call.op = "chat_completion"
    /\ ~service_call.done
    /\ service_call' = Ran(_send_request(service_call.inputs.answers,
                                         service_call.inputs.max_retries, 1, <<>>))
    /\ UNCHANGED notServiceCall

NextLLM == ChatCompletion

SpecLLM == ServiceInit(CompletionCalls) /\ [][NextLLM]_vars

\* ------------------------------------------------------- claim C29
\* a chat_completion that has run, and what the upstream did
Completed == service_call.op = "chat_completion" /\ service_call.done
Is429(a) == a.kind = "response" /\ a.status = 429
Is5xxOrTimeout(a) ==
    \/ a.kind = "TimeoutException"
    \/ a.kind = "response" /\ a.status \in 500..599
IsSuccess(a) == a.kind = "response" /\ a.status = 200 /\ a.body # NoChoices
\* the retry-after hint of a 429 the LLM upstream sent
LLMHint(header) == IF header = None THEN LLM_DEFAULT_RETRY_AFTER ELSE float(header)

\* C29: when the upstream answers 429 to every attempt, chat_completion
\* makes max_retries requests and raises LLMRateLimitError with the
\* retry-after hint; when it answers 5xx or times out at every attempt,
\* chat_completion makes max_retries requests and raises LLMServiceError;
\* when an attempt within the budget succeeds after attempts of these
\* kinds, the parsed response is returned.
C29_RetryBudget ==
    Completed
       => LET answers == service_call.inputs.answers
              max_retries == service_call.inputs.max_retries
              did == service_call.did
          IN /\ (\A i \in 1..max_retries : Is429(answers[i]))
                   => /\ did.raised
                      /\ did.attempts = max_retries
                      /\ did.error.type = "LLMRateLimitError"
                      /\ IsNumber(answers[max_retries].header)
                            \/ answers[max_retries].header = None
                            => did.error.retry_after =
                                  LLMHint(answers[max_retries].header)
             /\ (\A i \in 1..max_retries : Is5xxOrTimeout(answers[i]))
                   => /\ did.raised
                      /\ did.attempts = max_retries
                      /\ did.error.type = "LLMServiceError"
             /\ \A k \in 1..max_retries :
                   (/\ IsSuccess(answers[k])
                    /\ \A i \in 1..(k - 1) :
                          Is429(answers[i]) \/ Is5xxOrTimeout(answers[i]))
                      => /\ ~did.raised
                         /\ did.attempts = k
                         /\ did.response = _parse_response(answers[k].body).response

\* ====================================================================
\* SpecRetrieve: ContextService.retrieve_context on a collection of stored
\* interactions. A record is known by its position in the collection, the
\* session it belongs to and its distance to the query, in tenths: the
\* code's round(distance, 4) leaves such distances as they are.
\* ====================================================================
\* settings.CONTEXT_SIMILARITY_THRESHOLD = 1.2, in tenths
SIMILARITY_THRESHOLD == 12
\* distances below, at and above the threshold
Distances == {5, SIMILARITY_THRESHOLD, SIMILARITY_THRESHOLD + 1}

Docs == [session_id : ClientSessionIds, distance : Distances]
RECURSIVE Collections(_)
Collections(n) ==
    IF n = 0 THEN {<<>>}
    ELSE LET smaller == Collections(n - 1)
         IN smaller \cup {Append(c, d) : c \in {k \in smaller : Len(k) = n - 1},
                                         d \in Docs}

\* collection.query(query_texts, n_results, where): the n_results nearest
\* of the records that match `where`, nearest first (records at the same
\* distance in the order they were added)
Query(coll, n_results, where) ==
    LET matching == {i \in DOMAIN coll :
                        where = None \/ coll[i].session_id = where}
        before(i, j) == \/ coll[i].distance < coll[j].distance
                        \/ coll[i].distance = coll[j].distance /\ i < j
        rank(i) == 1 + Cardinality({j \in matching : before(j, i)})
        size == IF n_results < Cardinality(matching) THEN n_results
                ELSE Cardinality(matching)
    IN [r \in 1..size |->
          LET i == CHOOSE j \in matching : rank(j) = r
          IN [document |-> i, metadata |-> [session_id |-> coll[i].session_id],
              distance |-> coll[i].distance]]

\* `n_results or self._max_results`: None and 0 are falsy
\* mutant: `n_results if n_results is not None else self._max_results`
NResultsOr_none_only(n_results, max_results) ==
    IF ~n_results.given THEN max_results ELSE n_results.value
NResultsOr(n_results, max_results) ==
    IF ~n_results.given THEN max_results
    ELSE IF n_results.value = 0 THEN max_results ELSE n_results.value

\* ContextService.retrieve_context(session_id, query, n_results,
\* cross_session) for the session sid, with the settings max_results and
\* the threshold; the query of the index raises when index_fails
retrieve_context(coll, max_results, sid, n_results, cross_session, index_fails) ==
    IF Len(coll) = 0 THEN <<>>
    ELSE LET n == NResultsOr(n_results, max_results)
             results == Query(coll, Min2(n, Len(coll)),
                              IF cross_session THEN None ELSE sid)
         IN IF index_fails THEN <<>>
            ELSE SelectSeq(results,
                           LAMBDA ctx : ctx.distance <= SIMILARITY_THRESHOLD)

\* the n_results a caller passes: None (not given), or a number
NResults == [given : {FALSE}, value : {0}] \cup [given : {TRUE}, value : 0..MaxDocs]

RetrieveCalls ==
    Pending("retrieve_context",
            [collection : Collections(MaxDocs), max_results : 1..MaxResults,
             session_id : ClientSessionIds, n_results : NResults,
             cross_session : BOOLEAN, index_fails : BOOLEAN])

\* retrieve_context runs
RetrieveContext ==
    /\ service_call.op = "retrieve_context"
    /\ ~service_call.done
    /\ LET in == service_call.inputs
       IN service_call' =
             Ran(retrieve_context(in.collection, in.max_results, in.session_id,
                                  in.n_results, in.cross_session,
                                  in.index_fails))
    /\ UNCHANGED notServiceCall

NextRetrieve == RetrieveContext

SpecRetrieve == ServiceInit(RetrieveCalls) /\ [][NextRetrieve]_vars

\* ------------------------------------------------------- claim C30
Retrieved == service_call.op = "retrieve_context" /\ service_call.done

\* C30: retrieve_context returns no record whose distance exceeds the
\* similarity threshold, at most n_results records (the configured
\* maximum when n_results is not given), only records of the given
\* session unless cross_session is set, and the records in ascending
\* order of distance.
C30_RetrievalBounded ==
    Retrieved
       => LET in == service_call.inputs
              found == service_call.did
              limit == IF in.n_results.given THEN in.n_results.value
                       ELSE in.max_results
          IN /\ \A i \in DOMAIN found :
                   found[i].distance <= SIMILARITY_THRESHOLD
             /\ Len(found) <= limit
             /\ ~in.cross_session
                   => \A i \in DOMAIN found :
                         found[i].metadata.session_id = in.session_id
             /\ \A i, j \in DOMAIN found :
                   i < j => found[i].distance <= found[j].distance

\* =====================================================================
\* SpecHealth: GET /health (routes/health.py) over the application that
\* create_app builds, each content API answering the probe request of its
\* adapter in one of several ways.
\* =====================================================================

\* the dependencies the route checks, in the order of api_checks
api_checks == <<"jikan_api", "tvmaze_api", "openlibrary_api">>

\* the configuration key under which create_app stores each adapter
ClientConfigKey(dep_name) ==
    CASE dep_name = "jikan_api" -> "JIKAN_CLIENT"
      [] dep_name = "tvmaze_api" -> "TVMAZE_CLIENT"
      [] dep_name = "openlibrary_api" -> "OPENLIBRARY_CLIENT"

\* the keys of app.config that create_app sets
ConfigKeys ==
    {"SECRET_KEY", "FLASK_DEBUG", "SETTINGS", "ORCHESTRATOR", "LLM_SERVICE",
     "CONVERSATION_LOGGER", "CONTEXT_SERVICE"}
       \cup {ClientConfigKey(api_checks[i]) : i \in DOMAIN api_checks}

\* the key the route looks a dependency's client up under: f"_{dep_name}_client"
HealthLookupKey(dep_name) ==
    CASE dep_name = "jikan_api" -> "_jikan_api_client"
      [] dep_name = "tvmaze_api" -> "_tvmaze_api_client"
      [] dep_name = "openlibrary_api" -> "_openlibrary_api_client"

\* how the probe request of an adapter's health_check ends
ProbeOutcomes ==
    {"ok", "APIClientError", "APITimeoutError", "APIRateLimitError",
     "Exception"}

\* an adapter's health_check: True when the probe get returns, False when
\* it raises anything
adapter_health_check(probe) == probe = "ok"

\* the route's verdict on one dependency: the text put into checks, and
\* whether the adapter's health_check was called.  The route calls
\* client.health_check() as a statement: what it returns is dropped, and
\* "error: ..." is written only when the call raises, which the adapters'
\* health_check never does.
CheckDependency(dep_name, probe) ==
    IF HealthLookupKey(dep_name) \in ConfigKeys
    THEN [text |-> IF adapter_health_check(probe) \in BOOLEAN
                   THEN "ok" ELSE "error: raised",
          called |-> TRUE]
    ELSE [text |-> "ok (client not initialized)", called |-> FALSE]

\* v.startswith("ok")
StartsWithOk(text) == text \in {"ok", "ok (client not initialized)"}

\* GET /health: checks every dependency and answers 200 when every entry
\* of checks starts with "ok", 503 otherwise
health_check(probes) ==
    LET checks == [i \in DOMAIN api_checks |->
                      CheckDependency(api_checks[i], probes[i])]
        all_healthy == \A i \in DOMAIN checks : StartsWithOk(checks[i].text)
    IN [status_code |-> IF all_healthy THEN 200 ELSE 503,
        checks |-> [i \in DOMAIN checks |-> checks[i].text],
        called |-> {api_checks[i] : i \in {j \in DOMAIN checks :
                                              checks[j].called}}]

\* the requests to GET /health: how each API answers its adapter's probe
HealthCalls ==
    Pending("health", [probes : [DOMAIN api_checks -> ProbeOutcomes]])

\* GET /health is answered
HealthCheck ==
    /\ service_call.op = "health"
    /\ ~service_call.done
    /\ service_call' = Ran(health_check(service_call.inputs.probes))
    /\ UNCHANGED notServiceCall

NextHealth == HealthCheck

SpecHealth == ServiceInit(HealthCalls) /\ [][NextHealth]_vars

\* ------------------------------------------------------- claim C31
HealthAnswered == service_call.op = "health" /\ service_call.done

\* C31: GET /health calls the health_check of each of the three content
\* adapters and answers 200 exactly when all three report healthy, 503
\* as soon as one of them reports failure.
C31_HealthReflectsAdapters ==
    HealthAnswered
       => LET probes == service_call.inputs.probes
              did == service_call.did
          IN /\ did.called = {api_checks[i] : i \in DOMAIN api_checks}
             /\ did.status_code = 200
                   <=> \A i \in DOMAIN probes : adapter_health_check(probes[i])
             /\ did.status_code \in {200, 503}

\* =====================================================================
\* SpecChatRoute: POST /chat (routes/chat.py) from the request body to
\* the HTTP answer: JSON parsing, ChatRequest validation, sanitizing,
\* the call of the orchestrator.
\* =====================================================================

\* stands for the 2000 characters of ChatRequest.message and of
\* sanitize_user_input
MaxMessageLength == 2

\* the characters of a message: white space, a letter, a character that
\* HTML escaping rewrites
Chars == {" ", "a", "<"}

\* the texts of up to n characters
Texts(n) == UNION {[1..k -> Chars] : k \in 0..n}

\* what the JSON body carries under "message": nothing, a text, or a value
\* that is not a string
MessageFields ==
    {[type |-> "missing"], [type |-> "int"]}
       \cup [type : {"str"}, text : Texts(MaxMessageLength + 1)]

\* the request bodies: text that is not JSON, JSON that is not an object,
\* and objects with or without message and session_id
ChatBodies ==
    [json : {"malformed", "array", "null", "string"}]
       \cup [json : {"object"}, message : MessageFields,
             session_id : {"", "s1"}]

\* str.strip()
RECURSIVE LStrip(_)
LStrip(text) ==
    IF text # <<>> /\ Head(text) = " " THEN LStrip(Tail(text)) ELSE text

RECURSIVE RStrip(_)
RStrip(text) ==
    IF text # <<>> /\ text[Len(text)] = " "
    THEN RStrip(SubSeq(text, 1, Len(text) - 1)) ELSE text

Strip(text) == RStrip(LStrip(text))

\* markupsafe.escape
RECURSIVE escape(_)
escape(text) ==
    IF text = <<>> THEN <<>>
    ELSE (IF Head(text) = "<" THEN <<"&", "l", "t", ";">> ELSE <<Head(text)>>)
            \o escape(Tail(text))

\* ChatRequest(**data): the error it raises, or the validated message
ChatRequest(data) ==
    IF data.json # "object" THEN [raised |-> "TypeError"]
    ELSE IF data.message.type # "str" THEN [raised |-> "ValidationError"]
    ELSE IF Len(data.message.text) < 1 THEN [raised |-> "ValidationError"]
    ELSE IF Len(data.message.text) > MaxMessageLength
         THEN [raised |-> "ValidationError"]
    ELSE IF Strip(data.message.text) = <<>>
         THEN [raised |-> "ValidationError"]
    ELSE [raised |-> "no", message |-> Strip(data.message.text),
          session_id |-> data.session_id]

\* sanitize_user_input on a string
sanitize_user_input(text) ==
    IF Strip(text) = <<>> THEN [raised |-> "ValueError"]
    ELSE LET escaped == escape(Strip(text))
         IN [raised |-> "no",
             text |-> SubSeq(escaped, 1, Min2(Len(escaped), MaxMessageLength))]

\* the answer of the application to a request that did not reach the
\* orchestrator
Rejected(status_code) ==
    [status_code |-> status_code, invoked |-> FALSE, sent |-> <<>>]

\* POST /chat; `orchestrator` is how process_message ends when it is called
chat(body, orchestrator) ==
    IF body.json = "malformed" THEN Rejected(400)
    ELSE LET req == ChatRequest(body)
         IN IF req.raised = "ValidationError" THEN Rejected(422)
            \* an exception the view does not catch goes to the
            \* application's handler for Exception
            ELSE IF req.raised = "TypeError" THEN Rejected(500)
            ELSE LET clean == sanitize_user_input(req.message)
                 IN IF clean.raised = "ValueError" THEN Rejected(422)
                    ELSE [status_code |->
                             IF orchestrator = "raises" THEN 500 ELSE 200,
                          invoked |-> TRUE, sent |-> clean.text]

\* the requests to POST /chat
ChatCalls ==
    Pending("chat", [body : ChatBodies, orchestrator : {"returns", "raises"}])

\* POST /chat is answered
Chat ==
    /\ service_call.op = "chat"
    /\ ~service_call.done
    /\ service_call' = Ran(chat(service_call.inputs.body,
                                service_call.inputs.orchestrator))
    /\ UNCHANGED notServiceCall

NextChatRoute == Chat

SpecChatRoute == ServiceInit(ChatCalls) /\ [][NextChatRoute]_vars

\* ------------------------------------------------------- claim C32
ChatAnswered == service_call.op = "chat" /\ service_call.done

\* the body is malformed JSON or violates the schema
InvalidBody(body) ==
    \/ body.json # "object"
    \/ body.message.type # "str"
    \/ Len(body.message.text) = 0
    \/ Len(body.message.text) > MaxMessageLength
    \/ \A i \in DOMAIN body.message.text : body.message.text[i] = " "

\* C32: every POST /chat whose body is malformed JSON or violates the
\* request schema (not a JSON object, message missing, empty, over-long
\* or blank after trimming) is answered 400 or 422, and the orchestrator
\* is not invoked for it.
C32_InvalidBodyRejected ==
    ChatAnswered /\ InvalidBody(service_call.inputs.body)
       => /\ service_call.did.status_code \in {400, 422}
          /\ ~service_call.did.invoked

\* =====================================================================
\* Further properties of BaseAPIClient.get under SpecRetry.
\* =====================================================================
\* ------------------------------------------------------- claim C33
\* what an attempt met ends the get: a success or a non-retryable 4xx
Final(last) ==
    /\ last.kind = "response"
    /\ last.status < 400 \/ last.status \in NonRetryable4xx

\* C33: whatever the upstream answers, a get makes no more attempts than
\* the retry budget, makes no attempt after a success or a non-retryable
\* 4xx, and ends with an error only after a non-retryable 4xx or when the
\* budget is used up.
C33_RetriesBounded ==
    \A w \in Workers :
       /\ hpc[w] \in {"stamp", "response"} => hloc[w].attempt <= _max_retries
       /\ hloc[w].last.attempt <= _max_retries
       /\ hpc[w] \in {"rate_limit_wait", "stamp", "response"}
             => ~Final(hloc[w].last)
       /\ (hpc[w] = "done" /\ hloc[w].last.kind = "response"
                           /\ hloc[w].last.status < 400)
             => hloc[w].result.kind = "return"
       /\ (hpc[w] = "done" /\ hloc[w].result.kind # "return")
             => \/ Final(hloc[w].last)
                \/ hloc[w].last.attempt = _max_retries

\* =====================================================================
\* Further properties of LLMService.chat_completion under SpecLLM.
\* =====================================================================
\* ------------------------------------------------------- claim C34
\* the upstream answered with a 4xx other than 429
IsClientError(a) ==
    a.kind = "response" /\ a.status \in 400..499 /\ a.status # 429

\* C34: a 4xx other than 429 from the LLM upstream is not retried:
\* chat_completion raises LLMServiceError for it after that one attempt,
\* so a call whose first attempt is answered so makes a single request.
C34_ClientErrorNotRetried ==
    (Completed /\ IsClientError(service_call.inputs.answers[1]))
       => /\ service_call.did.raised
          /\ service_call.did.error = LLMServiceError("OpenRouter API error")
          /\ service_call.did.attempts = 1
          /\ service_call.did.slept = <<>>

\* =====================================================================
\* Further properties of the session map under SpecSessions.
\* =====================================================================
\* ------------------------------------------------------- claim C35
\* the session ids that are in one of the two maps only
Unpaired ==
    (DOMAIN sessions \ DOMAIN session_timestamps)
       \cup (DOMAIN session_timestamps \ DOMAIN sessions)

\* C35: under every interleaving of process_message, clear_session and
\* cleanup_expired_sessions the session map and the timestamp map hold the
\* same session ids: in every state in which no operation is between the
\* two writes of its `with self._lock:` block the key sets are equal, and
\* inside a block they differ at most in the session the block works on.
C35_MapsPaired ==
    /\ lock = "free" => Unpaired = {}
    /\ \A w \in Workers : lock = w => Unpaired \subseteq {wloc[w].sid}

\* while a turn on s1 is waiting for the LLM, clear_session has removed s1
\* from both maps and the session s2 of an earlier turn is in both
C35_Witness ==
    /\ lock = "free"
    /\ wpc["w2"] = "await_llm"
    /\ wloc["w2"].sid = "s1"
    /\ wloc["w1"].op = "clear_session"
    /\ wloc["w1"].sid = "s1"
    /\ wloc["w1"].ret = "True"
    /\ DOMAIN sessions = {"s2"}
    /\ DOMAIN session_timestamps = {"s2"}

\* =====================================================================
\* Further properties of a turn under Spec.
\* =====================================================================
\* ------------------------------------------------------- claim C36
\* the LLM call of the turn in flight raises in this step
LLMAborts ==
    /\ pc \in {"await_llm", "final_llm"}
    /\ pc' = "idle"
    /\ llm_log' # <<>>
    /\ llm_log'[Len(llm_log')].outcome = "raise"

\* the last turn ended with an LLM failure and the next turn on the same
\* session begins in this step
TurnAfterLLMAbort ==
    /\ pc = "idle"
    /\ llm_log # <<>>
    /\ llm_log[Len(llm_log)].outcome = "raise"
    /\ pc' = "await_llm"
    /\ session_id' = session_id
    /\ session_id \in DOMAIN sessions

\* C36: a turn that aborts on a failure of the LLM gateway is not rolled
\* back: the session stays in both maps, its history stays as the turn
\* left it (the user message and the tool-call and tool-result messages
\* appended before the failure, no assistant text of the turn), and the
\* next turn on the session is sent that history with its own user message
\* appended, the message before it not being an assistant reply.
C36_AbortedTurnKept ==
    [][/\ LLMAborts
          => /\ http_response'.status = 500
             /\ sessions' = sessions
             /\ session_timestamps' = session_timestamps
             /\ \A s \in DOMAIN sessions :
                   heap'[sessions[s]] = heap[sessions[s]]
             /\ (session_id \in DOMAIN sessions
                    /\ sessions[session_id] = history)
                   => LET h == heap'[history]
                      IN /\ h[Len(h)].role \in {"user", "tool"}
                         /\ h[Len(h)].role = "user"
                               => h[Len(h)].content = UserMessages[turns]
       /\ TurnAfterLLMAbort
          => LET h == heap'[history']
             IN /\ history' = sessions[session_id]
                /\ h[Len(h)] = [role |-> "user",
                                content |-> UserMessages[turns']]
                /\ h[Len(h) - 1].role \in {"system", "user", "tool"}
                /\ max_length = MaxLength
                      => h[Len(h) - 1] = heap[history'][Len(heap[history'])]
      ]_vars

\* the first turn failed at its first LLM call, and the second turn on the
\* session waits for the LLM with the two user messages one after the other
C36_Witness ==
    /\ pc = "await_llm"
    /\ turns = 2
    /\ heap[history] = <<[role |-> "system", content |-> SYSTEM_PROMPT],
                         [role |-> "user", content |-> UserMessages[1]],
                         [role |-> "user", content |-> UserMessages[2]]>>

\* ------------------------------------------------------- claim C37
\* the turn of worker w is in flight, between _get_or_create_session and
\* its return
InFlight(w) == wpc[w] \in {"add_user", "await_llm"}

\* the turn of worker w is in flight on a history that clear_session or the
\* sweep has removed from the session map
Removed(w) == InFlight(w) /\ ~Attached(w)

\* the user message of the turn of worker w
UserMessageOf(w) == [role |-> "user", content |-> UserMessages[wloc[w].call]]

\* C37: when clear_session or the sweep removes a session while a turn on
\* it is in flight, the turn goes on with the removed history and returns
\* its text; its messages reach no history of the session map, the session
\* is not put back and the two maps are as they were when the turn ends,
\* and a later message on the id gets a new history with none of the
\* removed turn's messages.
C37_RemovedTurnDetached ==
    [][\A w \in Workers :
          /\ Removed(w)'
                => /\ wloc'[w].history \in detached'
                   /\ \A s \in DOMAIN sessions' :
                         sessions'[s] # wloc'[w].history
                   /\ \A v \in Workers \ {w} :
                         (InFlight(v)' /\ Attached(v)'
                             /\ wloc'[v].sid = wloc'[w].sid)
                            => LET h == heap'[wloc'[v].history]
                               IN /\ wloc'[v].history # wloc'[w].history
                                  /\ \A i \in DOMAIN h : h[i] # UserMessageOf(w)'
          /\ (Removed(w) /\ wpc'[w] # wpc[w])
                => /\ sessions' = sessions
                   /\ session_timestamps' = session_timestamps
                   /\ \A s \in DOMAIN sessions :
                         heap'[sessions[s]] = heap[sessions[s]]
                   /\ transcript' = transcript
                   /\ wpc[w] = "add_user"
                         => LET h == heap'[wloc[w].history]
                            IN h[Len(h)] = UserMessageOf(w)
                   /\ wpc[w] = "await_llm"
                         => /\ wpc'[w] = "idle"
                            /\ wloc'[w].op = "process_message"
                            /\ wloc'[w].ret = "returned"
      ]_vars

\* clear_session removed s1 during the first turn on it: that turn waits for
\* the LLM with its user message in the removed history, and a second turn
\* on s1 waits with a new history in the session map
C37_Witness ==
    /\ wpc["w1"] = "await_llm"
    /\ wloc["w1"].sid = "s1"
    /\ ~Attached("w1")
    /\ wloc["w1"].history \in detached
    /\ heap[wloc["w1"].history][Len(heap[wloc["w1"].history])] = UserMessageOf("w1")
    /\ wpc["w2"] = "await_llm"
    /\ wloc["w2"].sid = "s1"
    /\ Attached("w2")
    /\ Cardinality(DOMAIN sessions) = 1

\* ------------------------------------------------------- claim C38
\* C38: for every permitted retry budget, a get that misses the cache and
\* ends with an error has issued at least one outbound request before.
C38_RequestBeforeError ==
    \A w \in Workers :
       (hpc[w] = "done" /\ hloc[w].result.kind # "return")
          => /\ hloc[w].last.attempt >= 1
             /\ requests # <<>>

\* =====================================================================
\* SpecStore: ContextService.store_interaction called several times, by
\* one worker or by concurrent workers, each call reading the clock for
\* its document id and then upserting.
\* =====================================================================
\* how many stores are made
MaxStores == 2

\* one call: the session, int(time.time() * 1000) as the call reads it,
\* and whether collection.upsert raises
StoreCalls == [session_id : ClientSessionIds, ms : 0..MaxClock,
               upsert : {"ok", "raised"}]

\* the sequences of up to n calls, in the order their upserts take effect
RECURSIVE StoreSequences(_)
StoreSequences(n) ==
    IF n = 0 THEN {<<>>}
    ELSE LET shorter == StoreSequences(n - 1)
         IN shorter \cup {Append(q, c) : q \in {k \in shorter : Len(k) = n - 1},
                                         c \in StoreCalls}

\* the collection after the first n calls of `stores`; the i-th call stores
\* the i-th user message
RECURSIVE StoreAll(_, _, _)
StoreAll(coll, stores, n) ==
    IF n = 0 THEN coll
    ELSE LET before == StoreAll(coll, stores, n - 1)
             c == stores[n]
         IN IF c.upsert = "raised" THEN before
            ELSE store_interaction(before, c.session_id, c.ms, UserMessages[n],
                                   "llm text", <<>>)

StoreRuns == Pending("store_interaction", [stores : StoreSequences(MaxStores)])

\* the calls run
StoreInteractions ==
    /\ service_call.op = "store_interaction"
    /\ ~service_call.done
    /\ service_call' = Ran(StoreAll(<<>>, service_call.inputs.stores,
                                    Len(service_call.inputs.stores)))
    /\ UNCHANGED notServiceCall

NextStore == StoreInteractions

SpecStore == ServiceInit(StoreRuns) /\ [][NextStore]_vars

\* ------------------------------------------------------- claim C39
StoresDone == service_call.op = "store_interaction" /\ service_call.done

\* the calls whose upsert went through
Successful(stores) == {i \in DOMAIN stores : stores[i].upsert = "ok"}

\* C39: every successful store_interaction adds one record: after the
\* calls the collection holds as many records as calls succeeded, and the
\* record of every successful call is still there, whatever the sessions
\* and the clock readings of the calls.
C39_EveryStoreAdds ==
    StoresDone
       => LET stores == service_call.inputs.stores
              coll == service_call.did
          IN /\ Cardinality(DOMAIN coll) = Cardinality(Successful(stores))
             /\ \A i \in Successful(stores) :
                   \E d \in DOMAIN coll :
                      /\ coll[d].question = UserMessages[i]
                      /\ coll[d].session_id = stores[i].session_id

\* =====================================================================
\* SpecPass: the first pass of _run_conversation_loop from the raw
\* completion: _parse_response, the has_tool_calls branch, and the tool
\* calls handed to the router.
\* =====================================================================
\* the history of a session at the first LLM call of its first turn
FirstCallHistory ==
    add_user_message(NewHistory(SYSTEM_PROMPT), MaxLength, UserMessages[1])

\* one pass of the loop (lines 224-265) on the body the LLM upstream
\* answered with: the exception of the parser, the returned text, or the
\* tool calls executed and the history with their messages. `outcome` is
\* how ToolRouter.execute ends for each call.
LoopPass(messages, data, outcome) ==
    LET parsed == _parse_response(data)
    IN IF parsed.raised
       THEN [ends |-> "raise", text |-> None, executed |-> <<>>,
             messages |-> messages]
       ELSE IF ~has_tool_calls(parsed.response)
       THEN [ends |-> "return",
             text |-> ContentOr(parsed.response.content, NO_RESPONSE),
             executed |-> <<>>, messages |-> messages]
       ELSE LET calls == parsed.response.tool_calls
                RECURSIVE Results(_, _)
                Results(h, i) ==
                    IF i > Len(calls) THEN h
                    ELSE Results(add_tool_result(
                                    h, MaxLength, calls[i].id, calls[i].name,
                                    _execute_tool_call(calls[i].name, outcome).value),
                                 i + 1)
            IN [ends |-> "next_iteration", text |-> None,
                executed |-> [i \in DOMAIN calls |-> calls[i].name],
                messages |-> Results(add_assistant_tool_calls(messages, MaxLength,
                                                              calls), 1)]

\* the bodies a pass can meet, the router succeeding or reporting an error
PassCalls ==
    Pending("loop_pass", [data : Completions,
                          outcome : {"ok", "ToolExecutionError"}])

\* a pass of the loop runs
RunLoopPass ==
    /\ service_call.op = "loop_pass"
    /\ ~service_call.done
    /\ service_call' = Ran(LoopPass(FirstCallHistory, service_call.inputs.data,
                                    service_call.inputs.outcome))
    /\ UNCHANGED notServiceCall

NextPass == RunLoopPass

SpecPass == ServiceInit(PassCalls) /\ [][NextPass]_vars

\* ------------------------------------------------------- claim C40
\* a pass has run on a body whose tool-call entries, at least one, all
\* fail to decode
AllEntriesFailed ==
    /\ service_call.op = "loop_pass"
    /\ service_call.done
    /\ service_call.inputs.data.choices # <<>>
    /\ LET raw == service_call.inputs.data.choices[1].message.tool_calls
       IN /\ raw # <<>>
          /\ \A i \in DOMAIN raw :
                /\ raw[i].function.arguments.type = "str"
                /\ raw[i].function.arguments.text # VALID_JSON

\* C40: when every tool-call entry of an LLM response fails to decode,
\* the orchestrator treats the response as a text: it executes no tool,
\* appends no tool-call message, and ends the loop with the content of the
\* response or, the content being null or empty, with the fallback text.
C40_UndecodableIsText ==
    AllEntriesFailed
       => LET content == service_call.inputs.data.choices[1].message.content
              did == service_call.did
          IN /\ did.ends = "return"
             /\ did.executed = <<>>
             /\ did.messages = FirstCallHistory
             /\ content \in {None, ""} => did.text = NO_RESPONSE
             /\ content \notin {None, ""} => did.text = content

\* two entries with arguments cut short and a null content: the pass
\* returned the fallback text
C40_Witness ==
    /\ AllEntriesFailed
    /\ Len(service_call.inputs.data.choices[1].message.tool_calls) = 2
    /\ service_call.inputs.data.choices[1].message.content = None
    /\ service_call.did.text = NO_RESPONSE
    /\ service_call.did.executed = <<>>

====
